---- MODULE Spec2Model ----
(***************************************************************************)
(* Credential lifecycle and request-resilience layer of google-photos-mcp. *)
(*                                                                         *)
(* SpecRefresh : TokenRefreshManager (auth/tokenRefreshManager)            *)
(* SpecQuota   : QuotaManager and the tool handlers of GooglePhotosMCPCore *)
(* SpecLimiter : NominatimRateLimiter (utils/nominatimRateLimiter)         *)
(* SpecRetry   : withRetry (utils/retry)                                   *)
(*                                                                         *)
(* Every action is one synchronous segment of a JavaScript function: the   *)
(* code between two awaits runs to completion on the single event-loop     *)
(* thread, and the environment (upstream replies, disk I/O, new requests,  *)
(* the clock) moves between segments.                                      *)
(***************************************************************************)
EXTENDS Integers, Sequences, FiniteSets, TLC

\* ------------------------------------------------------------------ bounds
NumCalls == 3
MaxRefreshes == 2
MaxTicks == 1
MaxConcurrent == 3
MaxQuotaTicks == 5
TicksPerDay == 2
NumOps == 3
MaxLimiterTicks == 5
TicksPerInterval == 2
NumFileOps == 2
MaxTokenTicks == 1

Users == {"A", "B"}
Calls == 1..NumCalls
Ops == 1..NumOps

VARIABLES
    now,              \* Date.now(), in ms
    refreshPromises,  \* TokenRefreshManager.refreshPromises: userId -> promise (0: no entry)
    promises,         \* the promises performRefresh has returned, in creation order
    calls,            \* the invocations of refreshIfNeeded, in call order
    upstream,         \* userId -> number of oauth2Client.refreshAccessToken() invocations
    store,            \* the token file: userId -> TokenData last saved
    storeWrites,      \* number of completed saveTokens writes
    requestCount,     \* QuotaManager.requestCount
    mediaByteCount,   \* QuotaManager.mediaByteCount
    resetTime,        \* QuotaManager.resetTime, in ms
    inflight,         \* tool handlers suspended at each await: position -> how many
    lastCheck,        \* what the checkQuota call of the step just taken did
    returned,         \* how the tool handler that finished in the step just taken ended
    warned,           \* the logger.warn lines recordRequest wrote in the step just taken
    lastRequestTime,  \* NominatimRateLimiter.lastRequestTime, in ms
    requestQueue,     \* NominatimRateLimiter.requestQueue: the queued operations, by id
    processing,       \* NominatimRateLimiter.processing
    drains,           \* the processQueue invocations that passed the entry test
    ops,              \* the operations handed to throttle, in submission order
    dispatched,       \* the operations the limiter has started, in start order
    config,           \* withRetry: finalConfig
    attempt,          \* withRetry: the loop variable attempt
    retryPc,          \* withRetry: idle, calling (await fn()), sleeping, returned or thrown
    invocations,      \* number of times withRetry has invoked fn
    lastError,        \* withRetry: lastError
    failures,         \* the errors fn() has rejected with, in order
    delays,           \* the delayMs values withRetry has passed to sleep, in order
    outcome,          \* how the withRetry call ended
    logged,           \* the last line withRetry wrote to the logger
    repository,       \* whether fn is the Photos client call of a repository function
    timeouts,         \* GooglePhotosDXTServer.timeouts: the timer of the tool request
    toolResult,       \* how the DXT CallToolRequest handler answered
    tokensFile,       \* the tokens file: its entries [userId, tokens], in key order
    fileOps,          \* the saveTokens and removeTokens calls in progress
    started,          \* number of saveTokens and removeTokens calls made
    lastGet,          \* what the getTokens / getFirstAvailableTokens call just made returned
    lastDone,         \* how the saveTokens / removeTokens call that just finished ended
    \* secureTokenStorage
    keychain,         \* userId -> the keychain entry (NoPassword if none)
    metadataFiles,    \* userId -> the content of <userId>.meta.json (NoFile if none)
    legacyFile,       \* the legacy tokens.json
    backups,          \* number of .backup-<timestamp> files made
    secureOp,         \* the call in progress and the await it stands at
    secureStarted,    \* number of calls made
    lastSecure,       \* how the call that just finished ended
    saves,            \* userId -> the last saveTokensSecure for it since the last remove
    \* auth routes
    authStates,       \* the state tokens stored, each with its expiry
    issued,           \* number of state tokens generated
    callback,         \* the /auth/callback request in progress
    callbacks,        \* number of /auth/callback requests received
    nextCleanup,      \* when the cleanup interval fires next
    lastResponse      \* the HTTP response just sent

refreshVars == <<refreshPromises, promises, calls, upstream, store, storeWrites>>
quotaVars == <<requestCount, mediaByteCount, resetTime, inflight, lastCheck, returned,
               warned>>
limiterVars == <<lastRequestTime, requestQueue, processing, drains, ops, dispatched>>
dxtVars == <<timeouts, toolResult>>
retryVars == <<config, attempt, retryPc, invocations, lastError, failures, delays, outcome,
               logged, repository, dxtVars>>
tokenVars == <<tokensFile, fileOps, started, lastGet, lastDone>>
secureVars == <<keychain, metadataFiles, legacyFile, backups, secureOp, secureStarted,
                lastSecure, saves>>
authVars == <<authStates, issued, callback, callbacks, nextCleanup, lastResponse>>
vars == <<now, refreshVars, quotaVars, limiterVars, retryVars, tokenVars, secureVars, authVars>>

\* ------------------------------------------------------- TokenRefreshManager

\* const expiryBuffer = 5 * 60 * 1000
ExpiryBuffer == 5 * 60 * 1000

NoToken == [access_token |-> 0, refresh_token |-> 0, expiry_date |-> 0]

\* The record every user starts with: still valid at the start of the run,
\* inside the expiry buffer one tick later.
InitialToken == [access_token |-> 0, refresh_token |-> 1, expiry_date |-> 2 * ExpiryBuffer]

\* A copy a caller loaded from an earlier state of the store, by now inside
\* the expiry buffer.
StaleToken == [access_token |-> 0, refresh_token |-> 1, expiry_date |-> ExpiryBuffer]

\* What a caller can pass as currentTokens: the record now in the store, or
\* the older copy it still holds.
CallerTokens(u) == {store[u], StaleToken}

\* What the identity provider can answer: credentials.expiry_date and
\* credentials.refresh_token may each be absent (0); an expiry_date that is
\* present lies beyond the end of the run.
Credentials ==
    { [refresh_token |-> 0, expiry_date |-> (MaxTicks + 2) * ExpiryBuffer],
      [refresh_token |-> 2, expiry_date |-> 0] }

NoResult == [ok |-> FALSE, tokens |-> NoToken, error |-> "pending", from |-> 0]
Pending == {"refreshing", "saving"}
Settled == {"fulfilled", "rejected"}

IdleCall == [st |-> "idle", userId |-> "A", currentTokens |-> NoToken,
             handle |-> 0, result |-> NoResult]

\* What a settled promise hands to whoever awaits it.
Outcome(p) ==
    IF promises[p].st = "fulfilled"
    THEN [ok |-> TRUE, tokens |-> promises[p].newTokens, error |-> "none", from |-> p]
    ELSE [ok |-> FALSE, tokens |-> NoToken, error |-> promises[p].error, from |-> p]

\* this.refreshPromises.get(userId)
existingRefreshLost(userId) == 0
existingRefreshGlobal(userId) ==
    IF \E v \in Users : refreshPromises[v] # 0
    THEN refreshPromises[CHOOSE v \in Users : refreshPromises[v] # 0]
    ELSE 0
existingRefresh(userId) == refreshPromises[userId]

\* currentTokens.expiry_date > Date.now() + expiryBuffer
StillValidNoBuffer(currentTokens) == currentTokens.expiry_date > now
StillValid(currentTokens) == currentTokens.expiry_date > now + ExpiryBuffer

\* performRefresh up to its first await: oauth2Client.refreshAccessToken() is
\* called and the promise of the async function is returned.
performRefresh(c, userId, currentTokens) ==
    /\ promises' = Append(promises,
                          [userId |-> userId, st |-> "refreshing", by |-> c,
                           currentTokens |-> currentTokens,
                           newTokens |-> NoToken, error |-> "none"])
    /\ upstream' = [upstream EXCEPT ![userId] = @ + 1]

\* refreshIfNeeded up to its first await (or its return).
refreshIfNeeded(c, userId, currentTokens) ==
    /\ calls[c].st = "idle"
    /\ \A d \in 1..(c - 1) : calls[d].st # "idle"
    /\ IF existingRefresh(userId) # 0
       THEN \* return existingRefresh
            /\ calls' = [calls EXCEPT ![c] =
                   [st |-> "joined", userId |-> userId, currentTokens |-> currentTokens,
                    handle |-> existingRefresh(userId), result |-> NoResult]]
            /\ UNCHANGED <<refreshPromises, promises, upstream>>
       ELSE IF StillValid(currentTokens)
       THEN \* return currentTokens
            /\ calls' = [calls EXCEPT ![c] =
                   [st |-> "returned", userId |-> userId, currentTokens |-> currentTokens,
                    handle |-> 0,
                    result |-> [ok |-> TRUE, tokens |-> currentTokens,
                                error |-> "none", from |-> 0]]]
            /\ UNCHANGED <<refreshPromises, promises, upstream>>
       ELSE \* refreshPromise = this.performRefresh(...); this.refreshPromises.set(...)
            /\ Len(promises) < MaxRefreshes
            /\ performRefresh(c, userId, currentTokens)
            /\ refreshPromises' = [refreshPromises EXCEPT ![userId] = Len(promises) + 1]
            /\ calls' = [calls EXCEPT ![c] =
                   [st |-> "awaiting", userId |-> userId, currentTokens |-> currentTokens,
                    handle |-> Len(promises) + 1, result |-> NoResult]]
    /\ UNCHANGED <<now, store, storeWrites, quotaVars, limiterVars, retryVars, tokenVars, secureVars, authVars>>

\* await oauth2Client.refreshAccessToken() resolves: newTokens is built and
\* saveTokens(userId, newTokens) is started.
refreshAccessTokenResolves(p, credentials) ==
    /\ promises[p].st = "refreshing"
    /\ promises' = [promises EXCEPT ![p] =
           [@ EXCEPT !.st = "saving",
                     !.newTokens =
                        [access_token |-> p,
                         refresh_token |->
                            IF credentials.refresh_token # 0
                            THEN credentials.refresh_token
                            ELSE promises[p].currentTokens.refresh_token,
                         expiry_date |-> credentials.expiry_date]]]
    /\ UNCHANGED <<now, refreshPromises, calls, upstream, store, storeWrites, quotaVars, limiterVars, retryVars, tokenVars, secureVars, authVars>>

\* await oauth2Client.refreshAccessToken() rejects: catch, log, throw error.
refreshAccessTokenRejects(p) ==
    /\ promises[p].st = "refreshing"
    /\ promises' = [promises EXCEPT ![p] =
           [@ EXCEPT !.st = "rejected", !.error = "refresh failed"]]
    /\ UNCHANGED <<now, refreshPromises, calls, upstream, store, storeWrites, quotaVars, limiterVars, retryVars, tokenVars, secureVars, authVars>>

\* await saveTokens(userId, newTokens) resolves: return newTokens.
saveTokensResolves(p) ==
    /\ promises[p].st = "saving"
    /\ store' = [store EXCEPT ![promises[p].userId] = promises[p].newTokens]
    /\ storeWrites' = storeWrites + 1
    /\ promises' = [promises EXCEPT ![p] = [@ EXCEPT !.st = "fulfilled"]]
    /\ UNCHANGED <<now, refreshPromises, calls, upstream, quotaVars, limiterVars, retryVars, tokenVars, secureVars, authVars>>

\* await saveTokens(...) rejects with Error('Failed to save tokens'): catch, throw.
saveTokensRejects(p) ==
    /\ promises[p].st = "saving"
    /\ promises' = [promises EXCEPT ![p] =
           [@ EXCEPT !.st = "rejected", !.error = "Failed to save tokens"]]
    /\ UNCHANGED <<now, refreshPromises, calls, upstream, store, storeWrites, quotaVars, limiterVars, retryVars, tokenVars, secureVars, authVars>>

\* finally { this.refreshPromises.delete(userId) }
finallyDeleteOnSuccessOnly(c) ==
    IF promises[calls[c].handle].st = "fulfilled"
    THEN [refreshPromises EXCEPT ![calls[c].userId] = 0]
    ELSE refreshPromises
finallyDelete(c) == [refreshPromises EXCEPT ![calls[c].userId] = 0]

\* The call that started the refresh resumes after `await refreshPromise`:
\* the finally block runs and the call returns or throws.
initiatorResumes(c) ==
    /\ calls[c].st = "awaiting"
    /\ promises[calls[c].handle].st \in Settled
    /\ refreshPromises' = finallyDelete(c)
    /\ calls' = [calls EXCEPT ![c] =
           [@ EXCEPT !.st = "returned", !.result = Outcome(calls[c].handle)]]
    /\ UNCHANGED <<now, promises, upstream, store, storeWrites, quotaVars, limiterVars, retryVars, tokenVars, secureVars, authVars>>

\* A call that returned existingRefresh settles with that promise. Promise
\* reactions run in registration order, and the initiator's await was
\* registered when the promise was created, so the initiator resumes first.
joinerResumes(c) ==
    /\ calls[c].st = "joined"
    /\ promises[calls[c].handle].st \in Settled
    /\ calls[promises[calls[c].handle].by].st = "returned"
    /\ calls' = [calls EXCEPT ![c] =
           [@ EXCEPT !.st = "returned", !.result = Outcome(calls[c].handle)]]
    /\ UNCHANGED <<now, refreshPromises, promises, upstream, store, storeWrites, quotaVars, limiterVars, retryVars, tokenVars, secureVars, authVars>>

\* The clock advances.
TickRefresh ==
    /\ now < MaxTicks * ExpiryBuffer
    /\ now' = now + ExpiryBuffer
    /\ UNCHANGED <<refreshVars, quotaVars, limiterVars, retryVars, tokenVars, secureVars, authVars>>


\* ------------------------------------------------------------- QuotaManager

\* constructor(maxRequests, maxMediaBytes): the caps of this run.
maxRequests == 2
maxMediaBytes == 1

\* One UTC day in ms: setUTCDate(getUTCDate() + 1); setUTCHours(0, 0, 0, 0).
MsPerDay == 24 * 60 * 60 * 1000

\* The positions at which a tool handler is suspended:
\*   search    handleSearchPhotos (and the handlers of the same shape) awaiting
\*             the Photos API call
\*   getPhoto  handleGetPhoto awaiting getPhoto, includeBase64 false
\*   getMedia  handleGetPhoto awaiting getPhoto, includeBase64 true
\*   base64    handleGetPhoto awaiting getPhotoAsBase64
Positions == {"search", "getPhoto", "getMedia", "base64"}

Suspended == inflight["search"] + inflight["getPhoto"] + inflight["getMedia"]
             + inflight["base64"]

NoCheck == [checked |-> FALSE, isMediaRequest |-> FALSE, reset |-> FALSE,
            previousRequests |-> 0, error |-> "none", count |-> 0, resetDate |-> 0]

\* getNextResetTime(): the midnight UTC that follows now. (Its `new Date()` is
\* read in the same synchronous segment as checkReset's Date.now().)
getNextResetTime == ((now \div MsPerDay) + 1) * MsPerDay

\* checkReset(): if (now >= this.resetTime)
resetDueStrict == now > resetTime
resetDue == now >= resetTime

\* checkQuota: if (this.requestCount >= this.maxRequests)
requestsExceededStrict(count) == count > maxRequests
requestsExceeded(count) == count >= maxRequests

\* checkQuota: if (isMediaRequest && this.mediaByteCount >= this.maxMediaBytes)
mediaExceededAlways(isMediaRequest, count) == count >= maxMediaBytes
mediaExceeded(isMediaRequest, count) == isMediaRequest /\ count >= maxMediaBytes

\* checkQuota(isMediaRequest): checkReset(), then the two limits; the McpError
\* it throws carries the count, the cap and the reset date.
checkQuota(isMediaRequest) ==
    /\ requestCount' = IF resetDue THEN 0 ELSE requestCount
    /\ mediaByteCount' = IF resetDue THEN 0 ELSE mediaByteCount
    /\ resetTime' = IF resetDue THEN getNextResetTime ELSE resetTime
    /\ lastCheck' =
          [checked |-> TRUE, isMediaRequest |-> isMediaRequest,
           reset |-> resetDue,
           previousRequests |-> IF resetDue THEN requestCount ELSE 0,
           error |-> IF requestsExceeded(requestCount') THEN "requests"
                     ELSE IF mediaExceeded(isMediaRequest, mediaByteCount') THEN "media"
                     ELSE "none",
           count |-> IF requestsExceeded(requestCount') THEN requestCount'
                     ELSE IF mediaExceeded(isMediaRequest, mediaByteCount')
                          THEN mediaByteCount'
                     ELSE 0,
           resetDate |-> IF requestsExceeded(requestCount')
                            \/ mediaExceeded(isMediaRequest, mediaByteCount')
                         THEN resetTime' ELSE 0]

NoWarning == [requests |-> FALSE, media |-> FALSE]

\* Math.floor(cap * 0.8): 0.8 is a double just above 4/5, so the product is
\* never below the exact value and the floor is that of cap * 8 / 10.
warnThreshold(cap) == (cap * 8) \div 10

\* recordRequest(isMediaRequest): the two counters, then the two 80% warnings
\* (=== against the counter just incremented).
recordRequest(isMediaRequest) ==
    /\ requestCount' = requestCount + 1
    /\ mediaByteCount' = IF isMediaRequest THEN mediaByteCount + 1 ELSE mediaByteCount
    /\ warned' = [requests |-> requestCount' = warnThreshold(maxRequests),
                  media |-> isMediaRequest
                            /\ mediaByteCount' = warnThreshold(maxMediaBytes)]

\* A handler that passed checkQuota suspends at `at`; one that did not throws.
Enter(at) ==
    IF lastCheck'.error = "none"
    THEN /\ inflight' = [inflight EXCEPT ![at] = @ + 1]
         /\ returned' = "none"
    ELSE /\ inflight' = inflight
         /\ returned' = "quota error"

\* handleSearchPhotos up to `await searchPhotosByText(...)`.
handleSearchPhotos ==
    /\ Suspended < MaxConcurrent
    /\ checkQuota(FALSE)
    /\ Enter("search")
    /\ warned' = NoWarning
    /\ UNCHANGED <<now, refreshVars, limiterVars, retryVars, tokenVars, secureVars, authVars>>

\* searchPhotosByText resolves: recordRequest(false), the result is returned.
searchPhotosResolves ==
    /\ inflight["search"] > 0
    /\ recordRequest(FALSE)
    /\ inflight' = [inflight EXCEPT !["search"] = @ - 1]
    /\ lastCheck' = NoCheck
    /\ returned' = "content"
    /\ UNCHANGED <<now, resetTime, refreshVars, limiterVars, retryVars, tokenVars, secureVars, authVars>>

\* searchPhotosByText rejects: the handler throws before recordRequest.
searchPhotosRejects ==
    /\ inflight["search"] > 0
    /\ inflight' = [inflight EXCEPT !["search"] = @ - 1]
    /\ lastCheck' = NoCheck
    /\ returned' = "upstream error"
    /\ warned' = NoWarning
    /\ UNCHANGED <<now, requestCount, mediaByteCount, resetTime, refreshVars, limiterVars, retryVars, tokenVars, secureVars, authVars>>

\* handleGetPhoto up to `await getPhoto(...)`.
handleGetPhoto(includeBase64) ==
    /\ Suspended < MaxConcurrent
    /\ checkQuota(includeBase64)
    /\ Enter(IF includeBase64 THEN "getMedia" ELSE "getPhoto")
    /\ warned' = NoWarning
    /\ UNCHANGED <<now, refreshVars, limiterVars, retryVars, tokenVars, secureVars, authVars>>

\* getPhoto resolves: recordRequest(args.includeBase64 || false); then, if
\* args.includeBase64 && photo.baseUrl, getPhotoAsBase64 is awaited.
getPhotoResolves(includeBase64, hasBaseUrl) ==
    /\ inflight[IF includeBase64 THEN "getMedia" ELSE "getPhoto"] > 0
    /\ recordRequest(includeBase64)
    /\ IF includeBase64 /\ hasBaseUrl
       THEN /\ inflight' = [inflight EXCEPT !["getMedia"] = @ - 1, !["base64"] = @ + 1]
            /\ returned' = "none"
       ELSE /\ inflight' = [inflight EXCEPT
                              ![IF includeBase64 THEN "getMedia" ELSE "getPhoto"] = @ - 1]
            /\ returned' = "content"
    /\ lastCheck' = NoCheck
    /\ UNCHANGED <<now, resetTime, refreshVars, limiterVars, retryVars, tokenVars, secureVars, authVars>>

\* getPhoto rejects: the handler throws before recordRequest.
getPhotoRejects(includeBase64) ==
    /\ inflight[IF includeBase64 THEN "getMedia" ELSE "getPhoto"] > 0
    /\ inflight' = [inflight EXCEPT
                      ![IF includeBase64 THEN "getMedia" ELSE "getPhoto"] = @ - 1]
    /\ lastCheck' = NoCheck
    /\ returned' = "upstream error"
    /\ warned' = NoWarning
    /\ UNCHANGED <<now, requestCount, mediaByteCount, resetTime, refreshVars, limiterVars, retryVars, tokenVars, secureVars, authVars>>

\* getPhotoAsBase64 resolves: the photo is returned with its base64Image.
getPhotoAsBase64Resolves ==
    /\ inflight["base64"] > 0
    /\ inflight' = [inflight EXCEPT !["base64"] = @ - 1]
    /\ lastCheck' = NoCheck
    /\ returned' = "content with image"
    /\ warned' = NoWarning
    /\ UNCHANGED <<now, requestCount, mediaByteCount, resetTime, refreshVars, limiterVars, retryVars, tokenVars, secureVars, authVars>>

\* getPhotoAsBase64 rejects: the handler throws.
getPhotoAsBase64Rejects ==
    /\ inflight["base64"] > 0
    /\ inflight' = [inflight EXCEPT !["base64"] = @ - 1]
    /\ lastCheck' = NoCheck
    /\ returned' = "download error"
    /\ warned' = NoWarning
    /\ UNCHANGED <<now, requestCount, mediaByteCount, resetTime, refreshVars, limiterVars, retryVars, tokenVars, secureVars, authVars>>

\* The clock advances by a fraction of a day.
TickQuota ==
    /\ now < MaxQuotaTicks * (MsPerDay \div TicksPerDay)
    /\ now' = now + (MsPerDay \div TicksPerDay)
    /\ lastCheck' = NoCheck
    /\ returned' = "none"
    /\ warned' = NoWarning
    /\ UNCHANGED <<requestCount, mediaByteCount, resetTime, inflight, refreshVars, limiterVars, retryVars, tokenVars, secureVars, authVars>>

\* new QuotaManager(): counters 0, resetTime = getNextResetTime().
InitQuota ==
    /\ requestCount = 0
    /\ mediaByteCount = 0
    /\ resetTime = getNextResetTime
    /\ inflight = [at \in Positions |-> 0]
    /\ lastCheck = NoCheck
    /\ returned = "none"
    /\ warned = NoWarning

NextQuota ==
    \/ handleSearchPhotos
    \/ searchPhotosResolves
    \/ searchPhotosRejects
    \/ \E b \in BOOLEAN : handleGetPhoto(b)
    \/ \E b, h \in BOOLEAN : getPhotoResolves(b, h)
    \/ \E b \in BOOLEAN : getPhotoRejects(b)
    \/ getPhotoAsBase64Resolves
    \/ getPhotoAsBase64Rejects
    \/ TickQuota

\* ----------------------------------------------------- NominatimRateLimiter

\* constructor(requestsPerSecond = 1)
requestsPerSecond == 1

\* this.minIntervalMs = (1000 / requestsPerSecond) + 100
minIntervalMs == (1000 \div requestsPerSecond) + 100

\* Date.now() when the process starts: epoch milliseconds, far above
\* minIntervalMs, so that the first operation finds lastRequestTime = 0 long past.
ProcessStart == 10 * minIntervalMs

\* The clock of SpecLimiter moves in steps of this many ms.
LimiterStep == minIntervalMs \div TicksPerInterval

NoDrain == [pc |-> "none", wakeAt |-> 0, op |-> 0]

NoOp == [st |-> "none", submitted |-> 0, started |-> 0,
         outcome |-> "none", promise |-> "pending", with |-> 0]

\* processQueue: if (this.processing || this.requestQueue.length === 0) return
processQueueReturnsIfEmpty(q) == q = <<>>
processQueueReturns(q) == processing \/ q = <<>>

\* processQueue: if (timeSinceLastRequest < this.minIntervalMs)
rateLimitedInverted(timeSinceLastRequest) == timeSinceLastRequest > minIntervalMs
rateLimited(timeSinceLastRequest) == timeSinceLastRequest < minIntervalMs

\* processQueue: const delayMs = this.minIntervalMs - timeSinceLastRequest
delayMs(timeSinceLastRequest) == minIntervalMs - timeSinceLastRequest

\* this.requestQueue.shift(): the element removed and the queue left.
pop(q) == [request |-> q[Len(q)], rest |-> SubSeq(q, 1, Len(q) - 1)]
shift(q) == [request |-> Head(q), rest |-> Tail(q)]

\* The wrapper throttle queues, once fn() of operation i has settled:
\* try { resolve(await fn()) } catch (error) { reject(error) }
\* settles the promise throttle returned for i; the wrapper itself resolves.
wrapperSwallows(o, i, ok) ==
    [o EXCEPT ![i].st = "done",
              ![i].outcome = IF ok THEN "ok" ELSE "fail",
              ![i].promise = IF ok THEN "resolved" ELSE @,
              ![i].with = IF ok THEN i ELSE @]
wrapper(o, i, ok) ==
    [o EXCEPT ![i].st = "done",
              ![i].outcome = IF ok THEN "ok" ELSE "fail",
              ![i].promise = IF ok THEN "resolved" ELSE "rejected",
              ![i].with = i]

\* processQueue leaves its while loop: this.processing = false.
leaveLoopKeepsFlag(d, q, o) ==
    /\ processing' = processing
    /\ drains' = [drains EXCEPT ![d] = NoDrain]
    /\ requestQueue' = q
    /\ ops' = o
    /\ UNCHANGED <<lastRequestTime, dispatched>>
leaveLoop(d, q, o) ==
    /\ processing' = FALSE
    /\ drains' = [drains EXCEPT ![d] = NoDrain]
    /\ requestQueue' = q
    /\ ops' = o
    /\ UNCHANGED <<lastRequestTime, dispatched>>

\* processQueue from `const request = this.requestQueue.shift()` to
\* `await request()`: the wrapper runs fn() before it first suspends.
dispatch(d, q, o, p) ==
    /\ requestQueue' = shift(q).rest
    /\ lastRequestTime' = now
    /\ ops' = [o EXCEPT ![shift(q).request].st = "running",
                        ![shift(q).request].started = now]
    /\ dispatched' = Append(dispatched, shift(q).request)
    /\ drains' = [drains EXCEPT ![d] = [pc |-> "running", wakeAt |-> 0,
                                        op |-> shift(q).request]]
    /\ processing' = p

\* processQueue from the while test to its next await, for the invocation d,
\* with queue q, operations o and processing flag p at that point.
whileLoop(d, q, o, p) ==
    IF q = <<>>
    THEN leaveLoop(d, q, o)
    ELSE IF rateLimited(now - lastRequestTime)
         THEN /\ drains' = [drains EXCEPT ![d] =
                              [pc |-> "sleeping",
                               wakeAt |-> now + delayMs(now - lastRequestTime),
                               op |-> 0]]
              /\ requestQueue' = q
              /\ ops' = o
              /\ processing' = p
              /\ UNCHANGED <<lastRequestTime, dispatched>>
         ELSE dispatch(d, q, o, p)

\* throttle(fn) for operation i: push the wrapper, call processQueue(), which
\* runs up to its first await. Operations are numbered in submission order.
throttle(i) ==
    /\ ops[i].st = "none"
    /\ \A j \in 1..(i - 1) : ops[j].st # "none"
    /\ LET q == Append(requestQueue, i)
           o == [ops EXCEPT ![i].st = "queued", ![i].submitted = now]
       IN  IF processQueueReturns(q)
           THEN /\ requestQueue' = q
                /\ ops' = o
                /\ UNCHANGED <<lastRequestTime, processing, drains, dispatched>>
           ELSE \E d \in Ops :
                   /\ drains[d].pc = "none"
                   /\ \A e \in 1..(d - 1) : drains[e].pc # "none"
                   /\ whileLoop(d, q, o, TRUE)
    /\ UNCHANGED <<now, refreshVars, quotaVars, retryVars, tokenVars, secureVars, authVars>>

\* The setTimeout of sleep(delayMs) fires, not before its delay has passed:
\* processQueue resumes after `await this.sleep(delayMs)`; shift() returns
\* undefined on an empty queue, and the loop test follows.
sleepResolves(d) ==
    /\ drains[d].pc = "sleeping"
    /\ now >= drains[d].wakeAt
    /\ IF requestQueue = <<>>
       THEN leaveLoop(d, requestQueue, ops)
       ELSE dispatch(d, requestQueue, ops, processing)
    /\ UNCHANGED <<now, refreshVars, quotaVars, retryVars, tokenVars, secureVars, authVars>>

\* fn() of the running operation settles (ok: resolved, otherwise rejected):
\* the wrapper settles the caller's promise, `await request()` returns and
\* processQueue goes round its loop.
requestSettles(d, ok) ==
    /\ drains[d].pc = "running"
    /\ whileLoop(d, requestQueue, wrapper(ops, drains[d].op, ok), processing)
    /\ UNCHANGED <<now, refreshVars, quotaVars, retryVars, tokenVars, secureVars, authVars>>

\* The clock advances.
TickLimiter ==
    /\ \E k \in 1..TicksPerInterval :
          /\ now + k * LimiterStep <= ProcessStart + MaxLimiterTicks * LimiterStep
          /\ now' = now + k * LimiterStep
    /\ UNCHANGED <<refreshVars, quotaVars, limiterVars, retryVars, tokenVars, secureVars, authVars>>

\* sleep(ms): time passes until the setTimeout of the sleeping processQueue
\* is due, however long the run has lasted.
timePasses(d) ==
    /\ drains[d].pc = "sleeping"
    /\ now < drains[d].wakeAt
    /\ now' = drains[d].wakeAt
    /\ UNCHANGED <<refreshVars, quotaVars, limiterVars, retryVars, tokenVars, secureVars, authVars>>

\* new NominatimRateLimiter(): lastRequestTime = 0, empty queue, not processing.
InitLimiter ==
    /\ lastRequestTime = 0
    /\ requestQueue = <<>>
    /\ processing = FALSE
    /\ drains = [d \in Ops |-> NoDrain]
    /\ ops = [i \in Ops |-> NoOp]
    /\ dispatched = <<>>

NextLimiter ==
    \/ \E i \in Ops : throttle(i)
    \/ \E d \in Ops : sleepResolves(d)
    \/ \E d \in Ops : \E ok \in BOOLEAN : requestSettles(d, ok)
    \/ TickLimiter

\* ----------------------------------------------------------------- withRetry

\* finalConfig when the caller leaves every field out (the `??` defaults);
\* the repositories pass { maxRetries: 3, initialDelayMs: 1000 }, the same values.
DefaultConfig == [maxRetries |-> 3, initialDelayMs |-> 1000, maxDelayMs |-> 30000,
                  backoffMultiplier |-> 2, rateLimitDelayMs |-> 30000]

\* A caller-supplied RetryConfig whose maxDelayMs the backoff reaches.
ShortConfig == [maxRetries |-> 3, initialDelayMs |-> 1000, maxDelayMs |-> 3000,
                backoffMultiplier |-> 2, rateLimitDelayMs |-> 1500]

Configs == {DefaultConfig, ShortConfig}

\* What fn() can reject with, as far as withRetry looks at it:
\*   isObject      error && typeof error === 'object'
\*   isAxiosError  'isAxiosError' in error && error.isAxiosError
\*   hasResponse   error.response is set;  status: error.response.status
\*   code          error.code
\*   message       error.message, as far as toError composes it: the status
\*                 it names (0: none) and the text it quotes
\*   attempts      an attempt count attached to the error (0: none)
\*   from          the invocation of fn() that rejected with it (0: not yet thrown)
NoMessage == [status |-> 0, text |-> "none"]

Reject(isObject, isAxiosError, hasResponse, status, code) ==
    [isObject |-> isObject, isAxiosError |-> isAxiosError, hasResponse |-> hasResponse,
     status |-> status, code |-> code, message |-> NoMessage, attempts |-> 0, from |-> 0]

NoError == Reject(FALSE, FALSE, FALSE, 0, "none")

Errors ==
    {Reject(FALSE, FALSE, FALSE, 0, "none"),       \* throw 'text', throw undefined
     Reject(TRUE, FALSE, FALSE, 0, "none"),        \* new Error(...), a validation error
     Reject(TRUE, FALSE, FALSE, 0, "ECONNRESET")}  \* a Node error not raised by axios
    \cup {Reject(TRUE, TRUE, TRUE, st, "ERR_BAD_RESPONSE") :
              st \in {400, 429, 499, 500, 599, 600}}
    \cup {Reject(TRUE, TRUE, FALSE, 0, c) : c \in {"ECONNABORTED", "ECONNRESET"}}

NoOutcome == [kind |-> "none", value |-> 0, error |-> NoError]

NoLog == [level |-> "none", n |-> 0]

\* isRetryableError(error)
isRetryableErrorAnyNetwork(error) ==
    IF ~error.isObject THEN FALSE
    ELSE IF error.isAxiosError
         THEN \/ error.hasResponse /\ error.status >= 500 /\ error.status < 600
              \/ error.hasResponse /\ error.status = 429
              \/ ~error.hasResponse
         ELSE FALSE
isRetryableErrorClientErrors(error) ==
    IF ~error.isObject THEN FALSE
    ELSE IF error.isAxiosError
         THEN \/ error.hasResponse /\ error.status >= 400 /\ error.status < 600
              \/ error.hasResponse /\ error.status = 429
              \/ ~error.hasResponse /\ error.code # "ECONNABORTED"
         ELSE FALSE
isRetryableError(error) ==
    IF ~error.isObject THEN FALSE
    ELSE IF error.isAxiosError
         THEN \/ error.hasResponse /\ error.status >= 500 /\ error.status < 600
              \/ error.hasResponse /\ error.status = 429
              \/ ~error.hasResponse /\ error.code # "ECONNABORTED"
         ELSE FALSE

\* withRetry: const is429 = error !== null && typeof error === 'object' &&
\* 'isAxiosError' in error && error.response?.status === 429
is429(error) == error.isObject /\ error.isAxiosError /\ error.hasResponse /\ error.status = 429

\* Math.pow(base, exponent), exponent a small natural number
RECURSIVE pow(_, _)
pow(base, exponent) == IF exponent = 0 THEN 1 ELSE base * pow(base, exponent - 1)

\* calculateDelay(attempt, config, is429)
calculateDelayFromOne(n, cfg, rateLimited429) ==
    IF rateLimited429
    THEN IF cfg.rateLimitDelayMs >= cfg.initialDelayMs * pow(cfg.backoffMultiplier, n + 1)
         THEN cfg.rateLimitDelayMs
         ELSE cfg.initialDelayMs * pow(cfg.backoffMultiplier, n + 1)
    ELSE IF cfg.initialDelayMs * pow(cfg.backoffMultiplier, n + 1) <= cfg.maxDelayMs
         THEN cfg.initialDelayMs * pow(cfg.backoffMultiplier, n + 1)
         ELSE cfg.maxDelayMs
calculateDelay(n, cfg, rateLimited429) ==
    IF rateLimited429
    THEN IF cfg.rateLimitDelayMs >= cfg.initialDelayMs * pow(cfg.backoffMultiplier, n)
         THEN cfg.rateLimitDelayMs
         ELSE cfg.initialDelayMs * pow(cfg.backoffMultiplier, n)
    ELSE IF cfg.initialDelayMs * pow(cfg.backoffMultiplier, n) <= cfg.maxDelayMs
         THEN cfg.initialDelayMs * pow(cfg.backoffMultiplier, n)
         ELSE cfg.maxDelayMs

\* for (...; attempt <= finalConfig.maxRetries; ...)
loopTest(n) == n <= config.maxRetries

\* if (attempt === finalConfig.maxRetries)
retriesExhaustedEarly(n) == n = config.maxRetries - 1
retriesExhausted(n) == n = config.maxRetries

\* `throw error` once the retries are exhausted: the error as fn() threw it.
exhaustedErrorAnnotated(error, n) == [error EXCEPT !.attempts = n + 1]
exhaustedError(error, n) == error

\* withRetry(fn, config) up to its first `await fn()`.
withRetry(cfg) ==
    /\ retryPc = "idle"
    /\ config' = cfg
    /\ attempt' = 0
    /\ invocations' = 1
    /\ retryPc' = "calling"
    /\ repository' = FALSE
    /\ UNCHANGED <<lastError, failures, delays, outcome, logged, dxtVars>>
    /\ UNCHANGED <<now, refreshVars, quotaVars, limiterVars, tokenVars, secureVars, authVars>>

\* fn() resolves: logger.info after a retry, `return result`.
fnResolves ==
    /\ retryPc = "calling"
    /\ outcome' = [kind |-> "returned", value |-> invocations, error |-> NoError]
    /\ logged' = IF attempt > 0 THEN [level |-> "info", n |-> attempt] ELSE logged
    /\ retryPc' = "returned"
    /\ UNCHANGED <<config, attempt, invocations, lastError, failures, delays, dxtVars, repository>>
    /\ UNCHANGED <<now, refreshVars, quotaVars, limiterVars, tokenVars, secureVars, authVars>>

\* fn() rejects with e: the catch block, up to its throw or its `await sleep`.
fnRejects(e) ==
    /\ retryPc = "calling"
    /\ LET error == [e EXCEPT !.from = invocations]
       IN  /\ lastError' = error
           /\ failures' = Append(failures, error)
           /\ IF ~isRetryableError(error)
              THEN /\ logged' = [level |-> "debug", n |-> 0]
                   /\ outcome' = [kind |-> "thrown", value |-> 0, error |-> error]
                   /\ retryPc' = "thrown"
                   /\ delays' = delays
              ELSE IF retriesExhausted(attempt)
              THEN /\ logged' = [level |-> "error", n |-> config.maxRetries]
                   /\ outcome' = [kind |-> "thrown", value |-> 0,
                                  error |-> exhaustedError(error, attempt)]
                   /\ retryPc' = "thrown"
                   /\ delays' = delays
              ELSE /\ logged' = [level |-> "warn", n |-> attempt + 1]
                   /\ delays' = Append(delays, calculateDelay(attempt, config, is429(error)))
                   /\ retryPc' = "sleeping"
                   /\ outcome' = outcome
    /\ UNCHANGED <<config, attempt, invocations, dxtVars, repository>>
    /\ UNCHANGED <<now, refreshVars, quotaVars, limiterVars, tokenVars, secureVars, authVars>>

\* sleep(delayMs) resolves: attempt++, the loop test, the next `await fn()`;
\* or, the loop left, `throw lastError`.
retrySleepResolves ==
    /\ retryPc = "sleeping"
    /\ attempt' = attempt + 1
    /\ IF loopTest(attempt')
       THEN /\ invocations' = invocations + 1
            /\ retryPc' = "calling"
            /\ outcome' = outcome
       ELSE /\ invocations' = invocations
            /\ retryPc' = "thrown"
            /\ outcome' = [kind |-> "thrown", value |-> 0, error |-> lastError]
    /\ UNCHANGED <<config, lastError, failures, delays, logged, dxtVars, repository>>
    /\ UNCHANGED <<now, refreshVars, quotaVars, limiterVars, tokenVars, secureVars, authVars>>

\* const DXT_TIMEOUT = 30000
DXT_TIMEOUT == 30000

\* The DXT CallToolRequest handler up to `await Promise.race([resultPromise,
\* timeoutPromise])`: the timer is set and stored, handleCallTool is started
\* (it reaches withRetry in one of the repositories).
callToolRequest ==
    /\ timeouts = "none"
    /\ retryPc = "idle"
    /\ timeouts' = "armed"
    /\ toolResult' = "none"
    /\ UNCHANGED <<config, attempt, retryPc, invocations, lastError, failures, delays,
                   outcome, logged, repository>>
    /\ UNCHANGED <<now, refreshVars, quotaVars, limiterVars, tokenVars, secureVars, authVars>>

\* DXT_TIMEOUT ms after it was set the timer fires: timeoutPromise rejects,
\* the race rejects, the catch block clears the timer and throws the McpError.
\* Nothing is said to handleCallTool, which keeps running. (The attempts of
\* fn() take any time, so the timer can fire at any point of the retries.)
timeoutFires ==
    /\ timeouts = "armed"
    /\ timeouts' = "fired"
    /\ toolResult' = "timeout"
    /\ UNCHANGED <<config, attempt, retryPc, invocations, lastError, failures, delays,
                   outcome, logged, repository>>
    /\ UNCHANGED <<now, refreshVars, quotaVars, limiterVars, tokenVars, secureVars, authVars>>

\* handleCallTool settles before the timer fires: the race settles with it,
\* the timer is cleared, the result is returned or the error thrown.
handleCallToolSettles ==
    /\ timeouts = "armed"
    /\ retryPc \in {"returned", "thrown"}
    /\ timeouts' = "cleared"
    /\ toolResult' = IF retryPc = "returned" THEN "result" ELSE "error"
    /\ UNCHANGED <<config, attempt, retryPc, invocations, lastError, failures, delays,
                   outcome, logged, repository>>
    /\ UNCHANGED <<now, refreshVars, quotaVars, limiterVars, tokenVars, secureVars, authVars>>

\* listAlbums (getAlbum, searchPhotos, getPhoto alike) up to the first
\* `await fn()` of its withRetry call: fn is the method of the client that
\* createPhotosLibraryClient built, the config { maxRetries: 3,
\* initialDelayMs: 1000 } completed by the defaults. (What withRetry throws,
\* listAlbums logs and replaces by Error('Failed to list albums').)
listAlbums ==
    /\ retryPc = "idle"
    /\ config' = DefaultConfig
    /\ attempt' = 0
    /\ invocations' = 1
    /\ retryPc' = "calling"
    /\ repository' = TRUE
    /\ UNCHANGED <<lastError, failures, delays, outcome, logged, dxtVars>>
    /\ UNCHANGED <<now, refreshVars, quotaVars, limiterVars, tokenVars, secureVars, authVars>>

\* toError(error, context): a new Error whose message names the status of an
\* axios error with a response and quotes the message of any other error;
\* the Error carries no isAxiosError, response or code.
toError(error) ==
    [Reject(TRUE, FALSE, FALSE, 0, "none") EXCEPT
        !.message = IF error.isAxiosError /\ error.hasResponse
                    THEN [status |-> error.status, text |-> "statusText"]
                    ELSE [status |-> 0, text |-> error.code]]

\* photosClient.albums.list: axios (or getAuthorizedHeaders) rejects with e,
\* the catch block of the client method throws toError(e, 'albums.list'), and
\* that is what the fn() of withRetry rejects with.
albumsListRejects(e) ==
    /\ repository
    /\ fnRejects(toError(e))

\* No withRetry call has been made.
InitRetry ==
    /\ config = DefaultConfig
    /\ attempt = 0
    /\ retryPc = "idle"
    /\ invocations = 0
    /\ lastError = NoError
    /\ failures = <<>>
    /\ delays = <<>>
    /\ outcome = NoOutcome
    /\ logged = NoLog
    /\ repository = FALSE
    /\ timeouts = "none"
    /\ toolResult = "none"

NextRetry ==
    \/ \E cfg \in Configs : withRetry(cfg)
    \/ listAlbums
    \/ fnResolves
    \/ \E e \in Errors : ~repository /\ fnRejects(e)
    \/ \E e \in Errors : albumsListRejects(e)
    \/ retrySleepResolves
    \/ callToolRequest
    \/ timeoutFires
    \/ handleCallToolSettles

\* ------------------------------------------------------ auth/tokens (file)

\* The clock of SpecTokens moves in steps of this many ms.
TokenStep == 50

\* The value of a key that is not present in a JSON object (JSON.stringify
\* drops a key whose value is undefined).
Undefined == "undefined"

NullToken == [access_token |-> Undefined, refresh_token |-> Undefined, expiry_date |-> 0,
              userEmail |-> Undefined, userId |-> Undefined, retrievedAt |-> 0]

\* The TokenData objects saveTokens is called with for user u: what the OAuth
\* callback and performRefresh build (performRefresh passes
\* credentials.access_token! on unchecked: it can be undefined or empty), with
\* the retrievedAt the caller put in. The code never looks at which user it
\* is, so the three kinds of access token are spread over the two users.
TokenInputs(u) ==
    {[access_token |-> a, refresh_token |-> "refresh", expiry_date |-> ProcessStart,
      userEmail |-> u, userId |-> u, retrievedAt |-> 0] :
        a \in IF u = "A" THEN {"access", Undefined} ELSE {"", Undefined}}

NoFileOp == [op |-> "none", pc |-> "none", userId |-> Undefined, tokens |-> NullToken,
             readOk |-> TRUE, allTokens |-> <<>>]

NoGet == [fn |-> "none", userId |-> Undefined, useDefault |-> FALSE, read |-> FALSE,
          found |-> FALSE, tokens |-> NullToken]

NoDone == [op |-> "none", userId |-> Undefined, ioFailed |-> FALSE, threw |-> FALSE]

\* isValidToken(entry): an object with the keys access_token, refresh_token
\* and expiry_date (expiry_date is present in every entry of this model).
isValidTokenAlways(entry) == TRUE
isValidToken(entry) ==
    /\ entry.access_token # Undefined
    /\ entry.refresh_token # Undefined

\* allTokens[userId]: the index of the entry of userId, 0 if there is none.
indexOf(allTokens, userId) ==
    IF \E k \in 1..Len(allTokens) : allTokens[k].userId = userId
    THEN CHOOSE k \in 1..Len(allTokens) : allTokens[k].userId = userId
    ELSE 0

\* The comparator of getNewestValidToken: typeof retrievedAt === 'number' ?
\* retrievedAt : 0 on both sides, bTime - aTime; a sorts before b if negative.
sortsBeforeOldest(a, b) == a.tokens.retrievedAt - b.tokens.retrievedAt < 0
sortsBefore(a, b) == b.tokens.retrievedAt - a.tokens.retrievedAt < 0

\* Array.prototype.sort with that comparator, which is stable: an entry moves
\* in front of another only if it sorts before it.
RECURSIVE insertSorted(_, _)
insertSorted(sorted, x) ==
    IF sorted = <<>> THEN <<x>>
    ELSE IF sortsBefore(x, sorted[Len(sorted)])
         THEN Append(insertSorted(SubSeq(sorted, 1, Len(sorted) - 1), x),
                     sorted[Len(sorted)])
         ELSE Append(sorted, x)

RECURSIVE sort(_)
sort(entries) ==
    IF entries = <<>> THEN <<>>
    ELSE insertSorted(sort(SubSeq(entries, 1, Len(entries) - 1)), entries[Len(entries)])

validEntry(e) == isValidToken(e.tokens)

\* getNewestValidToken(allTokens): Object.entries in insertion order, filter,
\* sort, first element; found FALSE stands for null.
getNewestValidToken(allTokens) ==
    LET validEntries == sort(SelectSeq(allTokens, validEntry))
    IN  IF Len(validEntries) = 0
        THEN [found |-> FALSE, tokens |-> NullToken]
        ELSE [found |-> TRUE, tokens |-> validEntries[1].tokens]

\* Every action other than a get forgets the result of the last get, and
\* every action other than the end of a save or remove forgets how it ended.
Forget ==
    /\ lastGet' = NoGet
    /\ lastDone' = NoDone

\* The lowest free slot for a call of saveTokens or removeTokens.
FreeSlot(k) ==
    /\ fileOps[k].op = "none"
    /\ \A j \in 1..(k - 1) : fileOps[j].op # "none"
    /\ started < NumFileOps

\* saveTokens(userId, tokens) up to `await fs.readFile` (mkdir has succeeded).
saveTokens(k, userId, tokens) ==
    /\ FreeSlot(k)
    /\ fileOps' = [fileOps EXCEPT ![k] = [op |-> "save", pc |-> "reading", userId |-> userId,
                                          tokens |-> tokens, readOk |-> TRUE,
                                          allTokens |-> <<>>]]
    /\ started' = started + 1
    /\ Forget
    /\ UNCHANGED <<tokensFile>>
    /\ UNCHANGED <<now, refreshVars, quotaVars, limiterVars, retryVars, secureVars, authVars>>

\* allTokens[userId] = tokensWithTimestamp: an existing key keeps its place,
\* a new key goes last.
assign(allTokens, userId, entry) ==
    IF indexOf(allTokens, userId) # 0
    THEN [allTokens EXCEPT ![indexOf(allTokens, userId)] = [userId |-> userId, tokens |-> entry]]
    ELSE Append(allTokens, [userId |-> userId, tokens |-> entry])

\* saveTokens from the end of readFile to `await fs.writeFile`: the file as
\* read (an empty object if the read or the parse failed; readOk keeps for
\* the record whether content of the file was dropped that way), the entry
\* stamped with retrievedAt: Date.now().
saveTokensRead(k, readOk) ==
    /\ fileOps[k].op = "save"
    /\ fileOps[k].pc = "reading"
    /\ fileOps' = [fileOps EXCEPT
          ![k].pc = "writing",
          ![k].tokens = NullToken,
          ![k].readOk = readOk \/ tokensFile = <<>>,
          ![k].allTokens = assign(IF readOk THEN tokensFile ELSE <<>>, fileOps[k].userId,
                                  [fileOps[k].tokens EXCEPT !.retrievedAt = now])]
    /\ Forget
    /\ UNCHANGED <<tokensFile, started>>
    /\ UNCHANGED <<now, refreshVars, quotaVars, limiterVars, retryVars, secureVars, authVars>>

\* writeFile resolves (the file now holds allTokens) or rejects (the catch
\* block logs and throws Error('Failed to save tokens')).
saveTokensWritten(k, writeOk) ==
    /\ fileOps[k].op = "save"
    /\ fileOps[k].pc = "writing"
    /\ tokensFile' = IF writeOk THEN fileOps[k].allTokens ELSE tokensFile
    /\ fileOps' = [fileOps EXCEPT ![k] = NoFileOp]
    /\ lastDone' = [op |-> "save", userId |-> fileOps[k].userId, ioFailed |-> ~writeOk,
                    threw |-> ~writeOk]
    /\ lastGet' = NoGet
    /\ UNCHANGED <<started>>
    /\ UNCHANGED <<now, refreshVars, quotaVars, limiterVars, retryVars, secureVars, authVars>>

\* removeTokens(userId) up to `await fs.readFile`.
removeTokens(k, userId) ==
    /\ FreeSlot(k)
    /\ fileOps' = [fileOps EXCEPT ![k] = [op |-> "remove", pc |-> "reading", userId |-> userId,
                                          tokens |-> NullToken, readOk |-> TRUE,
                                          allTokens |-> <<>>]]
    /\ started' = started + 1
    /\ Forget
    /\ UNCHANGED <<tokensFile>>
    /\ UNCHANGED <<now, refreshVars, quotaVars, limiterVars, retryVars, secureVars, authVars>>

\* delete allTokens[userId]
delete(allTokens, userId) ==
    SelectSeq(allTokens, LAMBDA e : e.userId # userId)

\* removeTokens from the end of readFile on: a read or parse error is caught,
\* logged, and the call returns; without an entry for userId the call returns;
\* else the entry is deleted and writeFile awaited.
removeTokensRead(k, readOk) ==
    /\ fileOps[k].op = "remove"
    /\ fileOps[k].pc = "reading"
    /\ IF readOk /\ indexOf(tokensFile, fileOps[k].userId) # 0
       THEN /\ fileOps' = [fileOps EXCEPT
                  ![k].pc = "writing",
                  ![k].allTokens = delete(tokensFile, fileOps[k].userId)]
            /\ Forget
       ELSE /\ fileOps' = [fileOps EXCEPT ![k] = NoFileOp]
            /\ lastDone' = [op |-> "remove", userId |-> fileOps[k].userId,
                            ioFailed |-> ~readOk, threw |-> FALSE]
            /\ lastGet' = NoGet
    /\ UNCHANGED <<tokensFile, started>>
    /\ UNCHANGED <<now, refreshVars, quotaVars, limiterVars, retryVars, secureVars, authVars>>

\* writeFile resolves, or rejects: the catch block logs the error and the call
\* returns all the same.
removeTokensWritten(k, writeOk) ==
    /\ fileOps[k].op = "remove"
    /\ fileOps[k].pc = "writing"
    /\ tokensFile' = IF writeOk THEN fileOps[k].allTokens ELSE tokensFile
    /\ fileOps' = [fileOps EXCEPT ![k] = NoFileOp]
    /\ lastDone' = [op |-> "remove", userId |-> fileOps[k].userId, ioFailed |-> ~writeOk,
                    threw |-> FALSE]
    /\ lastGet' = NoGet
    /\ UNCHANGED <<started>>
    /\ UNCHANGED <<now, refreshVars, quotaVars, limiterVars, retryVars, secureVars, authVars>>

\* getTokens(userId, useDefault), from the end of readFile on; a read or parse
\* error is caught and null returned. (A get changes nothing but the record of
\* its own result, so a get that follows a get adds no behaviour: lastGet
\* holds one call at a time.)
getTokens(userId, useDefault, readOk) ==
    /\ lastGet = NoGet
    /\ lastGet' =
          IF ~readOk
          THEN [fn |-> "getTokens", userId |-> userId, useDefault |-> useDefault,
                read |-> readOk, found |-> FALSE, tokens |-> NullToken]
          ELSE IF indexOf(tokensFile, userId) # 0
                  /\ isValidToken(tokensFile[indexOf(tokensFile, userId)].tokens)
          THEN [fn |-> "getTokens", userId |-> userId, useDefault |-> useDefault,
                read |-> readOk, found |-> TRUE, tokens |-> tokensFile[indexOf(tokensFile, userId)].tokens]
          ELSE IF useDefault
          THEN [fn |-> "getTokens", userId |-> userId, useDefault |-> useDefault,
                read |-> readOk, found |-> getNewestValidToken(tokensFile).found,
                tokens |-> getNewestValidToken(tokensFile).tokens]
          ELSE [fn |-> "getTokens", userId |-> userId, useDefault |-> useDefault,
                read |-> readOk, found |-> FALSE, tokens |-> NullToken]
    /\ lastDone' = NoDone
    /\ UNCHANGED <<tokensFile, fileOps, started>>
    /\ UNCHANGED <<now, refreshVars, quotaVars, limiterVars, retryVars, secureVars, authVars>>

\* getFirstAvailableTokens(), from the end of readFile on: null for a missing
\* or empty file and for a read error, else the newest valid entry.
getFirstAvailableTokens(readOk) ==
    /\ lastGet = NoGet
    /\ lastGet' =
          IF ~readOk \/ tokensFile = <<>>
          THEN [fn |-> "getFirstAvailableTokens", userId |-> Undefined, useDefault |-> FALSE,
                read |-> readOk, found |-> FALSE, tokens |-> NullToken]
          ELSE [fn |-> "getFirstAvailableTokens", userId |-> Undefined, useDefault |-> FALSE,
                read |-> readOk, found |-> getNewestValidToken(tokensFile).found,
                tokens |-> getNewestValidToken(tokensFile).tokens]
    /\ lastDone' = NoDone
    /\ UNCHANGED <<tokensFile, fileOps, started>>
    /\ UNCHANGED <<now, refreshVars, quotaVars, limiterVars, retryVars, secureVars, authVars>>

\* The clock advances.
TickTokens ==
    /\ now < ProcessStart + MaxTokenTicks * TokenStep
    /\ now' = now + TokenStep
    /\ Forget
    /\ UNCHANGED <<tokensFile, fileOps, started>>
    /\ UNCHANGED <<refreshVars, quotaVars, limiterVars, retryVars, secureVars, authVars>>

\* No tokens file yet (an absent file and one holding {} read the same to
\* every function here), no call in progress.
InitTokens ==
    /\ tokensFile = <<>>
    /\ fileOps = [k \in 1..NumFileOps |-> NoFileOp]
    /\ started = 0
    /\ lastGet = NoGet
    /\ lastDone = NoDone

NextTokens ==
    \/ \E k \in 1..NumFileOps, u \in Users : \E t \in TokenInputs(u) : saveTokens(k, u, t)
    \/ \E k \in 1..NumFileOps, readOk \in BOOLEAN : saveTokensRead(k, readOk)
    \/ \E k \in 1..NumFileOps, writeOk \in BOOLEAN : saveTokensWritten(k, writeOk)
    \/ \E k \in 1..NumFileOps, u \in Users : removeTokens(k, u)
    \/ \E k \in 1..NumFileOps, readOk \in BOOLEAN : removeTokensRead(k, readOk)
    \/ \E k \in 1..NumFileOps, writeOk \in BOOLEAN : removeTokensWritten(k, writeOk)
    \/ \E u \in Users, d \in BOOLEAN, readOk \in BOOLEAN : getTokens(u, d, readOk)
    \/ \E readOk \in BOOLEAN : getFirstAvailableTokens(readOk)
    \/ TickTokens

\* ------------------------------------------ secureTokenStorage (keychain store)
\* src/src/auth/secureTokenStorage.ts. The secrets of a user are one keychain
\* entry (service 'google-photos-mcp', account userId), the metadata one file
\* <userId>.meta.json. Calls are taken one at a time; every await of a call is
\* a step that the keychain or the file system lets succeed or fail.

NumSecureOps == 3
MaxSecureTicks == 2

\* No keychain entry (getPassword gives null), no file. A retrievedAt of 0
\* stands for an object without that field.
NoPassword == [access_token |-> Undefined, refresh_token |-> Undefined, expiry_date |-> 0]
NoFile == [userId |-> Undefined, userEmail |-> Undefined, retrievedAt |-> 0]
\* The legacy tokens.json: whether it exists, and its entries in file order.
Absent == [exists |-> FALSE, entries |-> <<>>]
Legacy(entries) == [exists |-> TRUE, entries |-> entries]

\* The SecureTokenData objects saveTokensSecure is called with.
SecureInputs ==
    {[access_token |-> a, refresh_token |-> "refresh", expiry_date |-> ProcessStart] :
        a \in {"access1", "access2"}}

\* A legacy tokens.json entry of user u.
LegacyEntry(u) ==
    [userId |-> u, access_token |-> "legacy", refresh_token |-> "refresh",
     expiry_date |-> ProcessStart, userEmail |-> u]

\* The legacy tokens.json a process can find at startup: none, or one written
\* by saveTokens for one or two users.
LegacyFiles ==
    {Absent, Legacy(<<LegacyEntry("A")>>), Legacy(<<LegacyEntry("A"), LegacyEntry("B")>>)}

NoSecureOp == [fn |-> "none", pc |-> "none", userId |-> Undefined, tokens |-> NoPassword,
               userEmail |-> Undefined, retrievedAt |-> 0, migrating |-> FALSE,
               legacyTokens |-> <<>>, writes |-> 0, before |-> NoPassword]

NoSecureResult == [fn |-> "none", userId |-> Undefined, threw |-> FALSE, found |-> FALSE,
             tokens |-> NoPassword, resultUserId |-> Undefined, userEmail |-> Undefined,
             retrievedAt |-> 0, ioFailed |-> FALSE, legacyFound |-> FALSE, writes |-> 0]

\* What is remembered of the last saveTokensSecure for a user: how it ended,
\* what it was given, the retrievedAt it stamped, and the keychain entry the
\* user had when it was called.
NoSave == [outcome |-> "none", tokens |-> NoPassword, userEmail |-> Undefined, at |-> 0,
           before |-> NoPassword]

ForgetSecure == lastSecure' = NoSecureResult

FreeSecure ==
    /\ secureOp.fn = "none"
    /\ secureStarted < NumSecureOps

\* The call of saveTokensSecure(userId, tokens, {userEmail}) up to
\* `await fs.mkdir`, as a record of the call in progress.
saveCall(userId, tokens, userEmail, migrating, legacyTokens, writes) ==
    [fn |-> "save", pc |-> "mkdir", userId |-> userId,
     tokens |-> [access_token |-> tokens.access_token,
                 refresh_token |-> tokens.refresh_token,
                 expiry_date |-> tokens.expiry_date],
     userEmail |-> userEmail, retrievedAt |-> 0, migrating |-> migrating,
     legacyTokens |-> legacyTokens, writes |-> writes, before |-> keychain[userId]]

\* saveTokensSecure called by the application.
saveTokensSecure(userId, tokens) ==
    /\ FreeSecure
    /\ secureOp' = saveCall(userId, tokens, userId, FALSE, <<>>, 0)
    /\ secureStarted' = secureStarted + 1
    /\ saves' = [saves EXCEPT ![userId] = NoSave]
    /\ ForgetSecure
    /\ UNCHANGED <<keychain, metadataFiles, legacyFile, backups>>
    /\ UNCHANGED <<now, refreshVars, quotaVars, limiterVars, retryVars, tokenVars, authVars>>

\* An await of saveTokensSecure rejects: the catch block logs and rethrows;
\* inside migrateLegacyTokens the error goes through its catch block too, which
\* logs and rethrows.
saveThrows ==
    /\ lastSecure' = [NoSecureResult EXCEPT
           !.fn = IF secureOp.migrating THEN "migrate" ELSE "save",
           !.userId = secureOp.userId,
           !.threw = TRUE,
           !.ioFailed = TRUE,
           !.legacyFound = secureOp.migrating,
           !.writes = secureOp.writes]
    /\ saves' = [saves EXCEPT ![secureOp.userId] =
           [outcome |-> "failed", tokens |-> secureOp.tokens,
            userEmail |-> secureOp.userEmail, at |-> now, before |-> secureOp.before]]
    /\ secureOp' = NoSecureOp

\* `await fs.mkdir(METADATA_DIR, {recursive: true})` settles.
saveTokensSecureMkdir(ok) ==
    /\ secureOp.fn = "save"
    /\ secureOp.pc = "mkdir"
    /\ IF ok
       THEN /\ secureOp' = [secureOp EXCEPT !.pc = "setPassword"]
            /\ ForgetSecure
            /\ UNCHANGED saves
       ELSE saveThrows
    /\ UNCHANGED <<keychain, metadataFiles, legacyFile, backups, secureStarted>>
    /\ UNCHANGED <<now, refreshVars, quotaVars, limiterVars, retryVars, tokenVars, authVars>>

\* `await keytar.setPassword` settles; on success the metadata payload is
\* built with retrievedAt: Date.now() and fs.writeFile called.
saveTokensSecureSetPassword(ok) ==
    /\ secureOp.fn = "save"
    /\ secureOp.pc = "setPassword"
    /\ IF ok
       THEN /\ keychain' = [keychain EXCEPT ![secureOp.userId] = secureOp.tokens]
            /\ secureOp' = [secureOp EXCEPT !.pc = "writeFile", !.retrievedAt = now,
                                            !.writes = @ + 1]
            /\ ForgetSecure
            /\ UNCHANGED saves
       ELSE /\ saveThrows
            /\ UNCHANGED keychain
    /\ UNCHANGED <<metadataFiles, legacyFile, backups, secureStarted>>
    /\ UNCHANGED <<now, refreshVars, quotaVars, limiterVars, retryVars, tokenVars, authVars>>

\* `await fs.writeFile(metadataFile, ...)` settles.
saveTokensSecureWriteFile(ok) ==
    /\ secureOp.fn = "save"
    /\ secureOp.pc = "writeFile"
    /\ IF ok
       THEN /\ metadataFiles' = [metadataFiles EXCEPT ![secureOp.userId] =
                  [userId |-> secureOp.userId, userEmail |-> secureOp.userEmail,
                   retrievedAt |-> secureOp.retrievedAt]]
            /\ secureOp' = [secureOp EXCEPT !.pc = "chmod", !.writes = @ + 1]
            /\ ForgetSecure
            /\ UNCHANGED saves
       ELSE /\ saveThrows
            /\ UNCHANGED metadataFiles
    /\ UNCHANGED <<keychain, legacyFile, backups, secureStarted>>
    /\ UNCHANGED <<now, refreshVars, quotaVars, limiterVars, retryVars, tokenVars, authVars>>

\* `await fs.chmod(metadataFile, 0o600)` settles. On success saveTokensSecure
\* returns; inside migrateLegacyTokens the for loop goes on to the next entry
\* of legacyTokens, or after the last one to fs.rename.
saveTokensSecureChmod(ok) ==
    /\ secureOp.fn = "save"
    /\ secureOp.pc = "chmod"
    /\ IF ok
       THEN /\ saves' = [u \in Users |->
                  IF u = secureOp.userId
                  THEN [outcome |-> "ok", tokens |-> secureOp.tokens,
                        userEmail |-> secureOp.userEmail, at |-> secureOp.retrievedAt,
                        before |-> secureOp.before]
                  ELSE IF /\ secureOp.migrating
                          /\ Len(secureOp.legacyTokens) > 1
                          /\ u = secureOp.legacyTokens[2].userId
                  THEN NoSave
                  ELSE saves[u]]
            /\ IF ~secureOp.migrating
               THEN /\ secureOp' = NoSecureOp
                    /\ lastSecure' = [NoSecureResult EXCEPT !.fn = "save",
                                                      !.userId = secureOp.userId,
                                                      !.writes = secureOp.writes + 1]
               ELSE /\ ForgetSecure
                    /\ IF Len(secureOp.legacyTokens) > 1
                       THEN secureOp' =
                              saveCall(secureOp.legacyTokens[2].userId,
                                       secureOp.legacyTokens[2],
                                       secureOp.legacyTokens[2].userEmail,
                                       TRUE, Tail(secureOp.legacyTokens),
                                       secureOp.writes + 1)
                       ELSE secureOp' = [NoSecureOp EXCEPT !.fn = "migrate",
                                                           !.pc = "rename",
                                                           !.migrating = TRUE,
                                                           !.writes = secureOp.writes + 1]
       ELSE saveThrows
    /\ UNCHANGED <<keychain, metadataFiles, legacyFile, backups, secureStarted>>
    /\ UNCHANGED <<now, refreshVars, quotaVars, limiterVars, retryVars, tokenVars, authVars>>

\* getTokensSecure(userId) up to `await keytar.getPassword`.
getTokensSecure(userId) ==
    /\ FreeSecure
    /\ secureOp' = [NoSecureOp EXCEPT !.fn = "get", !.pc = "getPassword", !.userId = userId]
    /\ secureStarted' = secureStarted + 1
    /\ ForgetSecure
    /\ UNCHANGED <<keychain, metadataFiles, legacyFile, backups, saves>>
    /\ UNCHANGED <<now, refreshVars, quotaVars, limiterVars, retryVars, tokenVars, authVars>>

\* getPassword settles: an error is caught by the outer catch, which returns
\* null; no entry returns null; else the payload is parsed and the metadata
\* file read.
getTokensSecureGetPassword(ok) ==
    /\ secureOp.fn = "get"
    /\ secureOp.pc = "getPassword"
    /\ IF ok /\ keychain[secureOp.userId] # NoPassword
       THEN /\ secureOp' = [secureOp EXCEPT !.pc = "readFile",
                                            !.tokens = keychain[secureOp.userId]]
            /\ ForgetSecure
       ELSE /\ secureOp' = NoSecureOp
            /\ lastSecure' = [NoSecureResult EXCEPT !.fn = "get", !.userId = secureOp.userId,
                                                    !.ioFailed = ~ok]
    /\ UNCHANGED <<keychain, metadataFiles, legacyFile, backups, saves, secureStarted>>
    /\ UNCHANGED <<now, refreshVars, quotaVars, limiterVars, retryVars, tokenVars, authVars>>

\* fs.readFile of the metadata file settles: on an error (the file is missing
\* or unreadable) the tokens are returned with the userId asked for and no
\* metadata; else {...tokens, userId: metadata.userId, userEmail:
\* metadata.userEmail}. TokenDataWithMetadata has no retrievedAt.
getTokensSecureReadFile(ok) ==
    /\ secureOp.fn = "get"
    /\ secureOp.pc = "readFile"
    /\ lastSecure' =
         IF ok /\ metadataFiles[secureOp.userId] # NoFile
         THEN [NoSecureResult EXCEPT !.fn = "get", !.userId = secureOp.userId, !.found = TRUE,
                                     !.tokens = secureOp.tokens,
                                     !.resultUserId = metadataFiles[secureOp.userId].userId,
                                     !.userEmail = metadataFiles[secureOp.userId].userEmail]
         ELSE [NoSecureResult EXCEPT !.fn = "get", !.userId = secureOp.userId, !.found = TRUE,
                                     !.tokens = secureOp.tokens,
                                     !.resultUserId = secureOp.userId,
                                     !.ioFailed = ~ok]
    /\ secureOp' = NoSecureOp
    /\ UNCHANGED <<keychain, metadataFiles, legacyFile, backups, saves, secureStarted>>
    /\ UNCHANGED <<now, refreshVars, quotaVars, limiterVars, retryVars, tokenVars, authVars>>

\* removeTokensSecure(userId) up to `await keytar.deletePassword`.
removeTokensSecure(userId) ==
    /\ FreeSecure
    /\ secureOp' = [NoSecureOp EXCEPT !.fn = "remove", !.pc = "deletePassword",
                                      !.userId = userId]
    /\ secureStarted' = secureStarted + 1
    /\ saves' = [saves EXCEPT ![userId] = NoSave]
    /\ ForgetSecure
    /\ UNCHANGED <<keychain, metadataFiles, legacyFile, backups>>
    /\ UNCHANGED <<now, refreshVars, quotaVars, limiterVars, retryVars, tokenVars, authVars>>

\* deletePassword settles: an error is logged and rethrown; else fs.unlink of
\* the metadata file is awaited.
removeTokensSecureDeletePassword(ok) ==
    /\ secureOp.fn = "remove"
    /\ secureOp.pc = "deletePassword"
    /\ IF ok
       THEN /\ keychain' = [keychain EXCEPT ![secureOp.userId] = NoPassword]
            /\ secureOp' = [secureOp EXCEPT !.pc = "unlink", !.writes = @ + 1]
            /\ ForgetSecure
       ELSE /\ secureOp' = NoSecureOp
            /\ lastSecure' = [NoSecureResult EXCEPT !.fn = "remove", !.userId = secureOp.userId,
                                              !.threw = TRUE]
            /\ UNCHANGED keychain
    /\ UNCHANGED <<metadataFiles, legacyFile, backups, saves, secureStarted>>
    /\ UNCHANGED <<now, refreshVars, quotaVars, limiterVars, retryVars, tokenVars, authVars>>

\* fs.unlink settles: an error is logged at debug level and dropped; the call
\* returns either way.
removeTokensSecureUnlink(ok) ==
    /\ secureOp.fn = "remove"
    /\ secureOp.pc = "unlink"
    /\ metadataFiles' = IF ok THEN [metadataFiles EXCEPT ![secureOp.userId] = NoFile]
                        ELSE metadataFiles
    /\ secureOp' = NoSecureOp
    /\ lastSecure' = [NoSecureResult EXCEPT !.fn = "remove", !.userId = secureOp.userId,
                                      !.writes = secureOp.writes + 1]
    /\ UNCHANGED <<keychain, legacyFile, backups, saves, secureStarted>>
    /\ UNCHANGED <<now, refreshVars, quotaVars, limiterVars, retryVars, tokenVars, authVars>>

\* migrateLegacyTokens(legacyTokensPath) up to `await fs.access`.
migrateLegacyTokens ==
    /\ FreeSecure
    /\ secureOp' = [NoSecureOp EXCEPT !.fn = "migrate", !.pc = "access", !.migrating = TRUE]
    /\ secureStarted' = secureStarted + 1
    /\ ForgetSecure
    /\ UNCHANGED <<keychain, metadataFiles, legacyFile, backups, saves>>
    /\ UNCHANGED <<now, refreshVars, quotaVars, limiterVars, retryVars, tokenVars, authVars>>

\* Whether fs.access(legacyTokensPath) rejects.
accessRejectsNever(file) == FALSE
accessRejects(file) == ~file.exists

\* fs.access settles: if it rejects, 'migration not needed' is logged and the
\* call returns; else fs.readFile is awaited.
migrateLegacyTokensAccess ==
    /\ secureOp.fn = "migrate"
    /\ secureOp.pc = "access"
    /\ IF accessRejects(legacyFile)
       THEN /\ secureOp' = NoSecureOp
            /\ lastSecure' = [NoSecureResult EXCEPT !.fn = "migrate"]
       ELSE /\ secureOp' = [secureOp EXCEPT !.pc = "readFile"]
            /\ ForgetSecure
    /\ UNCHANGED <<keychain, metadataFiles, legacyFile, backups, saves, secureStarted>>
    /\ UNCHANGED <<now, refreshVars, quotaVars, limiterVars, retryVars, tokenVars, authVars>>

\* fs.readFile of the legacy file settles: an error (or text JSON.parse
\* rejects) is logged and rethrown; else saveTokensSecure is called for the
\* first entry, or fs.rename if there is none.
migrateLegacyTokensReadFile(ok) ==
    /\ secureOp.fn = "migrate"
    /\ secureOp.pc = "readFile"
    /\ IF ok /\ legacyFile.exists
       THEN /\ ForgetSecure
            /\ IF Len(legacyFile.entries) > 0
               THEN secureOp' = saveCall(legacyFile.entries[1].userId, legacyFile.entries[1],
                                         legacyFile.entries[1].userEmail, TRUE,
                                         legacyFile.entries, 0)
               ELSE secureOp' = [secureOp EXCEPT !.pc = "rename"]
            /\ saves' = IF Len(legacyFile.entries) > 0
                        THEN [saves EXCEPT ![legacyFile.entries[1].userId] = NoSave]
                        ELSE saves
       ELSE /\ secureOp' = NoSecureOp
            /\ lastSecure' = [NoSecureResult EXCEPT !.fn = "migrate", !.threw = TRUE,
                                              !.legacyFound = legacyFile.exists]
            /\ UNCHANGED saves
    /\ UNCHANGED <<keychain, metadataFiles, legacyFile, backups, secureStarted>>
    /\ UNCHANGED <<now, refreshVars, quotaVars, limiterVars, retryVars, tokenVars, authVars>>

\* fs.rename(legacyTokensPath, backupPath) settles.
migrateLegacyTokensRename(ok) ==
    /\ secureOp.fn = "migrate"
    /\ secureOp.pc = "rename"
    /\ legacyFile' = IF ok THEN Absent ELSE legacyFile
    /\ backups' = IF ok THEN backups + 1 ELSE backups
    /\ secureOp' = NoSecureOp
    /\ lastSecure' = [NoSecureResult EXCEPT !.fn = "migrate", !.threw = ~ok, !.legacyFound = TRUE,
                                      !.writes = secureOp.writes + (IF ok THEN 1 ELSE 0)]
    /\ UNCHANGED <<keychain, metadataFiles, saves, secureStarted>>
    /\ UNCHANGED <<now, refreshVars, quotaVars, limiterVars, retryVars, tokenVars, authVars>>

\* The clock advances.
TickSecure ==
    /\ now < ProcessStart + MaxSecureTicks * TokenStep
    /\ now' = now + TokenStep
    /\ ForgetSecure
    /\ UNCHANGED <<keychain, metadataFiles, legacyFile, backups, secureOp, secureStarted, saves>>
    /\ UNCHANGED <<refreshVars, quotaVars, limiterVars, retryVars, tokenVars, authVars>>

\* An empty keychain and metadata directory.
InitSecure ==
    /\ keychain = [u \in Users |-> NoPassword]
    /\ metadataFiles = [u \in Users |-> NoFile]
    /\ backups = 0
    /\ secureOp = NoSecureOp
    /\ secureStarted = 0
    /\ lastSecure = NoSecureResult
    /\ saves = [u \in Users |-> NoSave]

NextSecure ==
    \/ \E u \in Users, t \in SecureInputs : saveTokensSecure(u, t)
    \/ \E ok \in BOOLEAN : saveTokensSecureMkdir(ok)
    \/ \E ok \in BOOLEAN : saveTokensSecureSetPassword(ok)
    \/ \E ok \in BOOLEAN : saveTokensSecureWriteFile(ok)
    \/ \E ok \in BOOLEAN : saveTokensSecureChmod(ok)
    \/ \E u \in Users : getTokensSecure(u)
    \/ \E ok \in BOOLEAN : getTokensSecureGetPassword(ok)
    \/ \E ok \in BOOLEAN : getTokensSecureReadFile(ok)
    \/ \E u \in Users : removeTokensSecure(u)
    \/ \E ok \in BOOLEAN : removeTokensSecureDeletePassword(ok)
    \/ \E ok \in BOOLEAN : removeTokensSecureUnlink(ok)
    \/ migrateLegacyTokens
    \/ migrateLegacyTokensAccess
    \/ \E ok \in BOOLEAN : migrateLegacyTokensReadFile(ok)
    \/ \E ok \in BOOLEAN : migrateLegacyTokensRename(ok)
    \/ TickSecure

\* ------------------------------------------------- auth routes, googleUser
\* src/unnamed/part_016 (setupAuthRoutes) and parseIdToken /
\* resolveUserIdentity (src/src/utils/retry.ts:237-341). Times are in
\* milliseconds. One callback request is followed at a time: the state map
\* is read and written only in the synchronous head of the handler.

NumStates == 2
NumCallbacks == 2
MaxAuthTicks == 4
AuthStep == 300000

\* 10 * 60 * 1000 and 15 * 60 * 1000
stateLifetime == 10 * 60 * 1000
cleanupInterval == 15 * 60 * 1000

clientId == "client-id"

\* The ID tokens the token endpoint's answer can carry: for each, the claims
\* written in its payload, whether the text is a JWT at all, and whether the
\* signature is Google's over this payload.
IdToken(wellFormed, signed, iss, aud, expired, email, sub) ==
    [present |-> TRUE, wellFormed |-> wellFormed, signed |-> signed, iss |-> iss,
     aud |-> aud, expired |-> expired, email |-> email, sub |-> sub]

NoIdToken ==
    [present |-> FALSE, wellFormed |-> FALSE, signed |-> FALSE, iss |-> Undefined,
     aud |-> Undefined, expired |-> FALSE, email |-> Undefined, sub |-> Undefined]

IdTokens ==
    {NoIdToken}
    \cup {IdToken(TRUE, TRUE, iss, clientId, FALSE, email, sub) :
            iss \in {"https://accounts.google.com", "accounts.google.com"},
            email \in {"A", Undefined}, sub \in {"sub-A", Undefined}}
    \cup {IdToken(FALSE, FALSE, "accounts.google.com", clientId, FALSE, "B", "sub-B"),
          IdToken(TRUE, FALSE, "accounts.google.com", clientId, FALSE, "B", "sub-B"),
          IdToken(TRUE, TRUE, "evil.example", clientId, FALSE, "B", "sub-B"),
          IdToken(TRUE, TRUE, "accounts.google.com", "other-client", FALSE, "B", "sub-B"),
          IdToken(TRUE, TRUE, "accounts.google.com", clientId, TRUE, "B", "sub-B")}

\* What oauth2Client.getToken(code) resolves with.
TokenResponses ==
    {[access_token |-> a, refresh_token |-> r, id_token |-> t] :
        a \in {"access"}, r \in {"refresh", Undefined}, t \in IdTokens}

NoPayload == [verified |-> FALSE, email |-> Undefined, sub |-> Undefined]

\* A user id, as the sequence of its parts: <<claim>> for an id taken from a
\* claim, <<"user_", t>> for `user_${Date.now()}`.
NoIdentity == [userId |-> <<>>, email |-> Undefined]

NoCallback == [pc |-> "none", host |-> Undefined, state |-> 0,
               tokens |-> [access_token |-> Undefined,
                           refresh_token |-> Undefined,
                           id_token |-> NoIdToken],
               identity |-> NoIdentity]

\* The response sent, with the state and code parameters of its request.
NoResponse == [route |-> "none", host |-> Undefined, status |-> 0, body |-> "", state |-> 0,
               hasCode |-> FALSE,
               id_token |-> NoIdToken, identity |-> NoIdentity]

ForgetAuth == lastResponse' = NoResponse

\* process.env.PORT || '3000', PORT not being set.
port == "3000"

\* GooglePhotosHTTPServer.setupMiddleware (src/unnamed/part_012:46-68), the
\* middleware registered before every route: whether it answers 403 to a
\* request whose req.get('host') is host (Undefined without a Host header).
allowedHosts == {"localhost:" \o port, "127.0.0.1:" \o port, "localhost", "127.0.0.1"}

hostRejected(host) ==
    /\ host # Undefined
    /\ host # ""
    /\ host \notin allowedHosts

\* The Host headers requests arrive with: the server's own name, an empty
\* value and a foreign name.
HostHeaders == {"localhost:3000", "", "attacker.com"}

\* res.status(403).send('Forbidden: Invalid Host header'); next() is not called.
forbidden(host, route) ==
    /\ lastResponse' = [NoResponse EXCEPT !.route = route, !.host = host, !.status = 403,
                                          !.body = "Forbidden: Invalid Host header"]
    /\ UNCHANGED <<authStates, issued, callback, callbacks>>

\* GET /auth: a fresh random state is stored with a 10-minute expiry and the
\* browser redirected to Google.
authRoute(host) ==
    /\ issued < NumStates
    /\ IF hostRejected(host)
       THEN forbidden(host, "/auth")
       ELSE /\ issued' = issued + 1
            /\ authStates' = authStates \cup {[state |-> issued + 1,
                                               expires |-> now + stateLifetime]}
            /\ lastResponse' = [NoResponse EXCEPT !.route = "/auth", !.host = host,
                                                  !.status = 302, !.state = issued + 1]
            /\ UNCHANGED <<callback, callbacks>>
    /\ UNCHANGED <<nextCleanup>>
    /\ UNCHANGED <<now, refreshVars, quotaVars, limiterVars, retryVars, tokenVars, secureVars>>

\* authStates.has(state)
hasAlways(states, state) == TRUE
has(states, state) == \E s \in states : s.state = state

\* The setInterval callback: deletes the states with expires < now.
cleanup ==
    /\ now >= nextCleanup
    /\ nextCleanup' = nextCleanup + cleanupInterval
    /\ authStates' = {s \in authStates : ~(s.expires < now)}
    /\ ForgetAuth
    /\ UNCHANGED <<issued, callback, callbacks>>
    /\ UNCHANGED <<now, refreshVars, quotaVars, limiterVars, retryVars, tokenVars, secureVars>>

\* GET /auth/callback?code=..&state=.. up to `await oauth2Client.getToken`.
\* state 0 stands for a missing state parameter, hasCode for a non-empty code.
authCallback(host, state, hasCode) ==
    /\ callback.pc = "none"
    /\ callbacks < NumCallbacks
    /\ IF hostRejected(host)
       THEN forbidden(host, "/auth/callback")
       ELSE /\ callbacks' = callbacks + 1
            /\ UNCHANGED issued
            /\ IF state = 0 \/ ~has(authStates, state)
               THEN /\ lastResponse' = [NoResponse EXCEPT !.route = "/auth/callback",
                                                          !.host = host,
                                                          !.status = 400,
                                                          !.body = "Invalid state parameter",
                                                          !.state = state, !.hasCode = hasCode]
                    /\ UNCHANGED <<authStates, callback>>
               ELSE /\ authStates' = {s \in authStates : s.state # state}
                    /\ IF ~hasCode
                       THEN /\ lastResponse' =
                                 [NoResponse EXCEPT !.route = "/auth/callback",
                                                    !.host = host,
                                                    !.status = 400,
                                                    !.body = "No authorization code received",
                                                    !.state = state, !.hasCode = hasCode]
                            /\ UNCHANGED callback
                       ELSE /\ callback' = [NoCallback EXCEPT !.pc = "getToken",
                                                              !.host = host,
                                                              !.state = state]
                            /\ ForgetAuth
    /\ UNCHANGED <<nextCleanup>>
    /\ UNCHANGED <<now, refreshVars, quotaVars, limiterVars, retryVars, tokenVars, secureVars>>

\* getToken rejects: the catch block answers 500.
getTokenRejects ==
    /\ callback.pc = "getToken"
    /\ callback' = NoCallback
    /\ lastResponse' = [NoResponse EXCEPT !.route = "/auth/callback", !.status = 500,
                                          !.body = "Authentication callback error",
                                          !.host = callback.host, !.state = callback.state,
                                          !.hasCode = TRUE]
    /\ UNCHANGED <<authStates, issued, callbacks, nextCleanup>>
    /\ UNCHANGED <<now, refreshVars, quotaVars, limiterVars, retryVars, tokenVars, secureVars>>

\* getToken resolves: without an access token or a refresh token the answer
\* is 500; else parseIdToken is awaited.
getTokenResolves(tokens) ==
    /\ callback.pc = "getToken"
    /\ IF tokens.access_token = Undefined \/ tokens.refresh_token = Undefined
       THEN /\ callback' = NoCallback
            /\ lastResponse' = [NoResponse EXCEPT !.route = "/auth/callback", !.status = 500,
                                                  !.body = "Failed to get required tokens",
                                                  !.host = callback.host, !.state = callback.state,
                                          !.hasCode = TRUE,
                                                  !.id_token = tokens.id_token]
       ELSE /\ callback' = [callback EXCEPT !.pc = "parseIdToken", !.tokens = tokens]
            /\ ForgetAuth
    /\ UNCHANGED <<authStates, issued, callbacks, nextCleanup>>
    /\ UNCHANGED <<now, refreshVars, quotaVars, limiterVars, retryVars, tokenVars, secureVars>>

\* oauth2Client.verifyIdToken({idToken, audience}) of google-auth-library:
\* whether it resolves with a ticket; it rejects for a text that is no JWT, a
\* signature that does not match, another audience, an expired token.
verifyIdTokenDecodesOnly(idToken, audience) ==
    idToken.wellFormed
verifyIdToken(idToken, audience) ==
    /\ idToken.wellFormed
    /\ idToken.signed
    /\ idToken.aud = audience
    /\ ~idToken.expired

\* parseIdToken(idToken, oauth2Client): the payload, or null (NoPayload).
parseIdToken(idToken) ==
    IF ~idToken.present
    THEN NoPayload
    ELSE IF ~verifyIdToken(idToken, clientId)
    THEN NoPayload
    ELSE IF idToken.iss # "https://accounts.google.com" /\ idToken.iss # "accounts.google.com"
    THEN NoPayload
    ELSE [verified |-> TRUE, email |-> idToken.email, sub |-> idToken.sub]

\* resolveUserIdentity(payload), called at time t.
resolveUserIdentity(payload, t) ==
    IF payload = NoPayload
    THEN [userId |-> <<"user_", t>>, email |-> Undefined]
    ELSE IF payload.email # Undefined
    THEN [userId |-> <<payload.email>>, email |-> payload.email]
    ELSE IF payload.sub # Undefined
    THEN [userId |-> <<payload.sub>>, email |-> payload.email]
    ELSE [userId |-> <<"user_", t>>, email |-> payload.email]

\* parseIdToken settles; the identity is resolved and saveTokens awaited.
parseIdTokenSettles ==
    /\ callback.pc = "parseIdToken"
    /\ callback' = [callback EXCEPT
           !.pc = "saveTokens",
           !.identity = resolveUserIdentity(parseIdToken(callback.tokens.id_token), now)]
    /\ ForgetAuth
    /\ UNCHANGED <<authStates, issued, callbacks, nextCleanup>>
    /\ UNCHANGED <<now, refreshVars, quotaVars, limiterVars, retryVars, tokenVars, secureVars>>

\* saveTokens(identity.userId, {...}) settles: the success page, or 500 from
\* the catch block.
callbackSaveTokensSettles(ok) ==
    /\ callback.pc = "saveTokens"
    /\ callback' = NoCallback
    /\ lastResponse' = [NoResponse EXCEPT !.route = "/auth/callback",
                                          !.status = IF ok THEN 200 ELSE 500,
                                          !.body = IF ok THEN "Authentication Successful"
                                                   ELSE "Authentication callback error",
                                          !.host = callback.host, !.state = callback.state,
                                          !.hasCode = TRUE,
                                          !.id_token = callback.tokens.id_token,
                                          !.identity = callback.identity]
    /\ UNCHANGED <<authStates, issued, callbacks, nextCleanup>>
    /\ UNCHANGED <<now, refreshVars, quotaVars, limiterVars, retryVars, tokenVars, secureVars>>

\* The clock advances.
TickAuth ==
    /\ now < ProcessStart + MaxAuthTicks * AuthStep
    /\ now' = now + AuthStep
    /\ ForgetAuth
    /\ UNCHANGED <<authStates, issued, callback, callbacks, nextCleanup>>
    /\ UNCHANGED <<refreshVars, quotaVars, limiterVars, retryVars, tokenVars, secureVars>>

\* setupAuthRoutes has run at process start: no state issued, the cleanup
\* timer armed.
InitAuth ==
    /\ authStates = {}
    /\ issued = 0
    /\ callback = NoCallback
    /\ callbacks = 0
    /\ nextCleanup = ProcessStart + cleanupInterval
    /\ lastResponse = NoResponse

NextAuth ==
    \/ \E host \in HostHeaders : authRoute(host)
    \/ cleanup
    \/ \E host \in HostHeaders, state \in 0..NumStates, hasCode \in BOOLEAN :
          authCallback(host, state, hasCode)
    \/ getTokenRejects
    \/ \E tokens \in TokenResponses : getTokenResolves(tokens)
    \/ parseIdTokenSettles
    \/ \E ok \in BOOLEAN : callbackSaveTokensSettles(ok)
    \/ TickAuth

\* The state after construction, the clock and the legacy tokens.json apart.
InitObjects ==
    /\ refreshPromises = [u \in Users |-> 0]
    /\ promises = <<>>
    /\ calls = [c \in Calls |-> IdleCall]
    /\ upstream = [u \in Users |-> 0]
    /\ store = [u \in Users |-> InitialToken]
    /\ storeWrites = 0
    /\ InitQuota
    /\ InitLimiter
    /\ InitRetry
    /\ InitTokens
    /\ InitSecure
    /\ InitAuth

\* No legacy tokens.json: the installation never ran a version that wrote one.
InitState ==
    /\ InitObjects
    /\ legacyFile = Absent

\* A process start at which migrateLegacyTokens can find a legacy tokens.json.
InitMigration ==
    /\ now = ProcessStart
    /\ InitObjects
    /\ legacyFile \in LegacyFiles

Init ==
    /\ now = 0
    /\ InitState

\* The same state with the clock at a process start time.
InitStarted ==
    /\ now = ProcessStart
    /\ InitState

NextRefresh ==
    \/ \E c \in Calls, u \in Users : \E tok \in CallerTokens(u) : refreshIfNeeded(c, u, tok)
    \/ \E p \in 1..Len(promises) : \E cr \in Credentials : refreshAccessTokenResolves(p, cr)
    \/ \E p \in 1..Len(promises) : refreshAccessTokenRejects(p)
    \/ \E p \in 1..Len(promises) : saveTokensResolves(p)
    \/ \E p \in 1..Len(promises) : saveTokensRejects(p)
    \/ \E c \in Calls : initiatorResumes(c)
    \/ \E c \in Calls : joinerResumes(c)
    \/ TickRefresh

SpecRefresh == Init /\ [][NextRefresh]_vars

SpecQuota == Init /\ [][NextQuota]_vars

SpecLimiter == InitStarted /\ [][NextLimiter]_vars

\* The limiter on an event loop that keeps running: time passes, a timer
\* that is due fires, and every operation the limiter has started settles.
NextLimiterFair ==
    \/ NextLimiter
    \/ \E d \in Ops : timePasses(d)

SpecLimiterFair ==
    /\ InitStarted
    /\ [][NextLimiterFair]_vars
    /\ WF_vars(\E d \in Ops : timePasses(d))
    /\ WF_vars(\E d \in Ops : sleepResolves(d))
    /\ WF_vars(\E d \in Ops : \E ok \in BOOLEAN : requestSettles(d, ok))

SpecRetry == Init /\ [][NextRetry]_vars

SpecTokens == InitStarted /\ [][NextTokens]_vars
SpecSecure == InitMigration /\ [][NextSecure]_vars
SpecAuth == InitStarted /\ [][NextAuth]_vars

\* ------------------------------------------------ properties of SpecRefresh

\* The freshness test of the specification, written out independently of the code.
ExpiredAt(tokens, t) == ~(tokens.expiry_date > t + ExpiryBuffer)

\* Call d is made in this step.
Arrives(d) == calls[d].st = "idle" /\ calls'[d].st # "idle"

\* The promises performRefresh has created for user u.
RefreshesOf(u) == {p \in 1..Len(promises) : promises[p].userId = u}

\* The parts of C1: joining, starting, and the outcome shared by a batch.
C1_JoinStep ==
    \A c, d \in Calls :
        ( /\ c # d
          /\ calls[c].st = "awaiting"
          /\ Arrives(d)
          /\ calls'[d].userId = calls[c].userId
          /\ ExpiredAt(calls'[d].currentTokens, now) )
        => /\ calls'[d].handle = calls[c].handle
           /\ upstream' = upstream
C1_StartStep ==
    \A d \in Calls :
        (Arrives(d) /\ calls'[d].st = "awaiting")
        => /\ upstream'[calls'[d].userId] = upstream[calls'[d].userId] + 1
           /\ \A u \in Users \ {calls'[d].userId} : upstream'[u] = upstream[u]
C1_SameOutcome ==
    /\ \A c, d \in Calls :
          ( /\ calls[c].handle # 0
            /\ calls[c].handle = calls[d].handle
            /\ calls[c].st = "returned"
            /\ calls[d].st = "returned" )
          => /\ calls[c].result = calls[d].result
             /\ calls[c].result = Outcome(calls[c].handle)
    /\ \A u \in Users : upstream[u] = Cardinality(RefreshesOf(u))

\* C1 (single-flight refresh): a call for userId that arrives with an expired
\* token while the call that started a refresh for userId has not yet
\* completed obtains that same refresh and invokes no upstream refresh of its
\* own; the call that starts a refresh invokes the upstream exactly once; and
\* all calls that share a refresh settle with the identical outcome, the
\* refreshed token or the error of that one refresh.
C1_SingleFlight == []C1_SameOutcome /\ [][C1_JoinStep /\ C1_StartStep]_vars

\* Three calls for one user, all with an expired token, have shared one
\* upstream refresh and all returned its token.
C1_Witness ==
    \E u \in Users :
        /\ upstream[u] = 1
        /\ \A c \in 1..3 :
              /\ calls[c].st = "returned"
              /\ calls[c].userId = u
              /\ calls[c].handle = 1
              /\ calls[c].result.ok
              /\ calls[c].currentTokens = StaleToken

\* The refreshes of u that have not settled.
InFlight(u) == {p \in RefreshesOf(u) : promises[p].st \in Pending}

\* C2 (at most one in-flight upstream refresh per user): in every reachable
\* state, for every userId, at most one refresh (the refreshAccessToken call
\* and the save that follows it) is outstanding.
C2_AtMostOneInFlight == \A u \in Users : Cardinality(InFlight(u)) <= 1

\* An upstream refresh is outstanding for a user while two more calls for that
\* user have arrived with an expired token.
C2_Witness ==
    \E u \in Users :
        /\ Cardinality(InFlight(u)) = 1
        /\ Cardinality({c \in Calls : /\ calls[c].userId = u
                                      /\ calls[c].st = "joined"
                                      /\ calls[c].currentTokens = StaleToken}) >= 2

\* C3 (freshness short-circuit): every call made with a token whose
\* expiry_date is later than now + the 5-minute buffer returns that token
\* unchanged at once, invokes no upstream refresh, writes nothing to the store
\* and leaves the in-flight map untouched, in every state.
C3_FreshShortCircuit ==
    [][ \A d \in Calls :
          (Arrives(d) /\ ~ExpiredAt(calls'[d].currentTokens, now))
          => /\ calls'[d].st = "returned"
             /\ calls'[d].result.ok
             /\ calls'[d].result.tokens = calls'[d].currentTokens
             /\ UNCHANGED <<refreshPromises, promises, upstream, store, storeWrites>>
      ]_vars

\* The parts of C4: the latest refresh of u failed and its initiator returned;
\* entries are live; the return step; the restart step.
FailedAndReturned(u) ==
    \E p \in RefreshesOf(u) :
        /\ promises[p].st = "rejected"
        /\ calls[promises[p].by].st = "returned"
        /\ \A q \in RefreshesOf(u) : q <= p
C4_EntryIsLive ==
    \A u \in Users :
        refreshPromises[u] # 0
        => /\ refreshPromises[u] \in RefreshesOf(u)
           /\ calls[promises[refreshPromises[u]].by].st = "awaiting"
C4_ReturnStep ==
    \A c \in Calls :
        (calls[c].st = "awaiting" /\ calls'[c].st = "returned")
        => refreshPromises'[calls[c].userId] = 0
C4_RestartStep ==
    \A d \in Calls :
        ( /\ Arrives(d)
          /\ FailedAndReturned(calls'[d].userId)
          /\ ExpiredAt(calls'[d].currentTokens, now) )
        => /\ calls'[d].st = "awaiting"
           /\ calls'[d].handle = Len(promises) + 1
           /\ upstream'[calls'[d].userId] = upstream[calls'[d].userId] + 1

\* C4 (no stuck Refreshing marker): an entry of the in-flight map always
\* belongs to a refresh whose initiator has not yet returned; the step in
\* which an initiator returns leaves no entry for its userId; and a call that
\* arrives with an expired token after a failed refresh has returned to its
\* initiator starts a new upstream refresh of its own.
C4_NoStuckMarker == []C4_EntryIsLive /\ [][C4_ReturnStep /\ C4_RestartStep]_vars

\* A refresh failed and returned its error to its initiator, and a later call
\* for the same user is waiting on a new refresh.
C4_Witness ==
    \E u \in Users, c, d \in Calls :
        /\ promises # <<>>
        /\ promises[1].userId = u /\ promises[1].st = "rejected"
        /\ calls[c].handle = 1 /\ calls[c].st = "returned" /\ ~calls[c].result.ok
        /\ calls[d].userId = u /\ calls[d].st = "awaiting" /\ calls[d].handle = 2
        /\ refreshPromises[u] = 2

\* C5 (no stale handle): no call is ever handed a refresh that has already
\* succeeded or failed.
C5_NoStaleHandle ==
    [][ \A d \in Calls :
          (Arrives(d) /\ calls'[d].handle # 0)
          => promises'[calls'[d].handle].st \in Pending
      ]_vars

\* The parts of C6: starting, ownership of handles and results, enabledness.
C6_OwnStartStep ==
    \A d \in Calls :
        ( /\ Arrives(d)
          /\ refreshPromises[calls'[d].userId] = 0
          /\ ExpiredAt(calls'[d].currentTokens, now) )
        => /\ calls'[d].st = "awaiting"
           /\ promises'[calls'[d].handle].userId = calls'[d].userId
           /\ promises'[calls'[d].handle].st = "refreshing"
           /\ upstream'[calls'[d].userId] = upstream[calls'[d].userId] + 1
C6_OwnRefreshOnly ==
    \A c \in Calls :
        /\ calls[c].handle # 0 => promises[calls[c].handle].userId = calls[c].userId
        /\ (calls[c].st = "returned" /\ calls[c].result.from # 0)
           => promises[calls[c].result.from].userId = calls[c].userId
C6_NeverBlocked ==
    \A c \in Calls :
        calls[c].st = "awaiting"
        => /\ promises[calls[c].handle].st = "refreshing"
                => ENABLED refreshAccessTokenRejects(calls[c].handle)
           /\ promises[calls[c].handle].st = "saving"
                => ENABLED saveTokensResolves(calls[c].handle)
           /\ promises[calls[c].handle].st \in Settled
                => ENABLED initiatorResumes(c)

\* C6 (independent users): a call that arrives with an expired token for a
\* user with no refresh of its own in flight starts that user's own upstream
\* refresh whatever the state of the other users' refreshes; a call only ever
\* holds, and returns the outcome of, a refresh of its own userId; and every
\* step of a user's refresh is enabled whatever the other users' refreshes do.
C6_Independent == [](C6_OwnRefreshOnly /\ C6_NeverBlocked) /\ [][C6_OwnStartStep]_vars

\* While A's upstream refresh is still outstanding, a call for B that arrived
\* later with an expired token has started B's own refresh and returned its token.
C6_Witness ==
    \E c \in Calls :
        /\ Len(promises) = 2
        /\ promises[1].userId = "A" /\ promises[1].st = "refreshing"
        /\ promises[2].userId = "B" /\ promises[2].by = c
        /\ calls[c].st = "returned" /\ calls[c].result.ok
        /\ calls[c].result.from = 2

\* -------------------------------------------------- properties of SpecQuota

\* The next UTC midnight after t: the least whole number of days later than t.
UTCMidnightAfter(t) ==
    CHOOSE m \in {k * MsPerDay : k \in 1..(MaxQuotaTicks + 2)} :
        /\ m > t
        /\ \A n \in {k * MsPerDay : k \in 1..(MaxQuotaTicks + 2)} : n > t => m <= n

\* C7 (quota hard stop): in the state a checkQuota(isHeavy) call leaves, that
\* is with the lazy reset applied, the call has failed if and only if
\* requestCount >= maxRequests or (isHeavy and mediaByteCount >= maxMediaBytes);
\* the error carries the count that is exhausted and a reset time equal to the
\* next UTC midnight; the handler then throws instead of calling upstream.
C7_QuotaHardStop ==
    lastCheck.checked =>
        /\ (lastCheck.error # "none")
              <=> \/ requestCount >= maxRequests
                  \/ lastCheck.isMediaRequest /\ mediaByteCount >= maxMediaBytes
        /\ lastCheck.error = "requests"
              => /\ requestCount >= maxRequests
                 /\ lastCheck.count = requestCount
                 /\ lastCheck.resetDate = UTCMidnightAfter(now)
        /\ lastCheck.error = "media"
              => /\ lastCheck.isMediaRequest
                 /\ mediaByteCount >= maxMediaBytes
                 /\ lastCheck.count = mediaByteCount
                 /\ lastCheck.resetDate = UTCMidnightAfter(now)
        /\ (returned = "quota error") <=> (lastCheck.error # "none")

\* checkQuota(false) has just failed on the request cap, and the error names
\* the count and the coming midnight.
C7_Witness ==
    /\ lastCheck.checked
    /\ ~lastCheck.isMediaRequest
    /\ lastCheck.error = "requests"
    /\ lastCheck.count >= maxRequests
    /\ lastCheck.resetDate = UTCMidnightAfter(now)
    /\ returned = "quota error"

\* The parts of C8: the state a check leaves, and the step of a check that is due.
C8_FutureReset ==
    lastCheck.checked => /\ resetTime > now
                         /\ resetTime = UTCMidnightAfter(now)
C8_ResetStep ==
    (lastCheck'.checked /\ now >= resetTime)
    => /\ requestCount' = 0
       /\ mediaByteCount' = 0
       /\ resetTime' = UTCMidnightAfter(now)
       /\ lastCheck'.reset
       /\ lastCheck'.error = "none"

\* C8 (lazy window reset): a checkQuota call made at a time >= resetTime
\* zeroes both counters and moves resetTime to the following UTC midnight
\* before the limits are evaluated, so it succeeds; and in the state any
\* checkQuota call leaves, resetTime is strictly later than now.
C8_LazyReset == []C8_FutureReset /\ [][C8_ResetStep]_vars

\* Exactly at midnight a check has reset a window whose request counter had
\* reached the cap, and has succeeded.
C8_Witness ==
    /\ lastCheck.checked
    /\ lastCheck.reset
    /\ lastCheck.previousRequests >= maxRequests
    /\ lastCheck.error = "none"
    /\ now % MsPerDay = 0
    /\ requestCount = 0

\* C9 (bounded overshoot): under every interleaving of tool calls,
\* requestCount never exceeds maxRequests by more than one, nor mediaByteCount
\* maxMediaBytes.
C9_BoundedOvershoot ==
    /\ requestCount <= maxRequests + 1
    /\ mediaByteCount <= maxMediaBytes + 1

\* C10 (failed requests do not consume quota): the counters move only in a
\* step in which the guarded upstream call succeeds, requestCount by one, and
\* mediaByteCount only in a step in which a base64 download succeeds.
C10_FailedRequestsFree ==
    [][ /\ requestCount' > requestCount
           => /\ requestCount' = requestCount + 1
              /\ returned' \in {"content", "content with image", "none"}
              /\ Suspended' <= Suspended
        /\ mediaByteCount' > mediaByteCount
           => /\ inflight'["base64"] < inflight["base64"]
              /\ returned' = "content with image"
      ]_vars

\* A counter that moves from `before` to `after` reaches 80% of `cap` in this
\* step: it was below four fifths of the cap and no longer is.
ReachesEightyPercent(before, after, cap) ==
    /\ 5 * before < 4 * cap
    /\ 5 * after >= 4 * cap

\* C11 (80% warning): a step writes the request warning exactly when it moves
\* requestCount from below 80% of maxRequests to at least 80% of it, and the
\* media warning exactly when it does so for mediaByteCount and maxMediaBytes;
\* so each warning is written once per window, at the recordRequest that first
\* reaches 80%, whatever the cap.
C11_WarnAtEightyPercent ==
    [][ /\ warned'.requests
           <=> ReachesEightyPercent(requestCount, requestCount', maxRequests)
        /\ warned'.media
           <=> ReachesEightyPercent(mediaByteCount, mediaByteCount', maxMediaBytes)
      ]_vars

\* ------------------------------------------------ properties of SpecLimiter

\* The operations the limiter has started and not yet seen settle.
Executing == {i \in Ops : ops[i].st = "running"}

\* The processQueue invocations inside the drain loop.
ActiveDrains == {d \in Ops : drains[d].pc # "none"}

\* C12 (rate-limiter spacing): the start times of every two consecutively
\* dispatched operations differ by at least 1100 ms, whenever the operations
\* are submitted and however long they run; the first operation of a run
\* starts when it is submitted, so three operations submitted at t start at
\* t, at t + 1100 or later and at t + 2200 or later.
C12_Spacing ==
    /\ \A k \in 1..(Len(dispatched) - 1) :
          ops[dispatched[k + 1]].started - ops[dispatched[k]].started >= 1100
    /\ ops[1].st # "none" => /\ ops[1].st # "queued"
                             /\ ops[1].started = ops[1].submitted

\* Three operations submitted at the same instant have all been started.
C12_Witness ==
    /\ Len(dispatched) = 3
    /\ \A i \in 1..3 : ops[i].submitted = ProcessStart
    /\ ops[1].started = ProcessStart
    /\ ops[2].started >= ProcessStart + 1100
    /\ ops[3].started >= ProcessStart + 2200

\* The number of throttle calls made so far.
Submitted == Cardinality({i \in Ops : ops[i].st # "none"})

\* C13 (rate-limiter ordering): operations are started in exactly the order
\* in which throttle was called, none skipped and none overtaken (the k-th
\* operation started is the k-th submitted), and the operations still waiting
\* are the later submissions, in submission order; this holds also for
\* submissions that arrive while the drain loop sleeps or runs an operation.
C13_SubmissionOrder ==
    /\ \A k \in 1..Len(dispatched) : dispatched[k] = k
    /\ Len(requestQueue) = Submitted - Len(dispatched)
    /\ \A k \in 1..Len(requestQueue) : requestQueue[k] = Len(dispatched) + k

\* Three operations submitted one after the other, the third while the second
\* was still waiting behind the drain loop, have all been started.
C13_Witness ==
    /\ Len(dispatched) = 3
    /\ ops[1].submitted < ops[2].submitted
    /\ ops[2].submitted < ops[3].submitted
    /\ ops[3].submitted < ops[2].started

\* C14 (rate-limiter mutual exclusion): at most one drain loop is active and
\* at most one throttled operation is executing at any time, however many
\* callers have submitted; every operation started before the latest one has
\* completed, resolved or rejected; and the processing flag is set exactly
\* while a drain loop is active.
C14_OneAtATime ==
    /\ Cardinality(ActiveDrains) <= 1
    /\ Cardinality(Executing) <= 1
    /\ \A k \in 1..(Len(dispatched) - 1) :
          /\ ops[dispatched[k]].st = "done"
          /\ ops[dispatched[k]].outcome \in {"ok", "fail"}
    /\ processing <=> ActiveDrains # {}

\* Three callers submitted at the same instant: the first operation has
\* completed, the second is executing, the third waits.
C14_Witness ==
    /\ \A i \in 1..3 : ops[i].submitted = ProcessStart
    /\ ops[1].st = "done"
    /\ Executing = {2}
    /\ requestQueue = <<3>>

\* C15 (rate-limiter failure isolation): the promise of a throttle call is
\* settled only by its own operation: rejected with that operation's error if
\* the operation failed, resolved with its result if it succeeded, pending
\* until then; and a failure does not stop the drain loop: while operations
\* wait in the queue a drain loop is active to dispatch them.
C15_FailureIsolation ==
    /\ \A i \in Ops :
          /\ ops[i].st = "done"
             => /\ ops[i].with = i
                /\ ops[i].outcome = "fail" <=> ops[i].promise = "rejected"
                /\ ops[i].outcome = "ok" <=> ops[i].promise = "resolved"
          /\ ops[i].st # "done" => ops[i].promise = "pending"
    /\ requestQueue # <<>> => /\ ActiveDrains # {}
                              /\ processing

\* The first operation failed and its caller alone was rejected; the second,
\* queued behind it, was then started and its caller got its result; the
\* third is being executed.
C15_Witness ==
    /\ ops[1].promise = "rejected"
    /\ ops[2].submitted < ops[1].started + 1100
    /\ ops[2].promise = "resolved"
    /\ ops[2].with = 2
    /\ ops[3].st = "running"

\* -------------------------------------------------- properties of SpecRetry

\* The last attempt has failed and withRetry has dealt with its error.
AttemptFailed ==
    /\ retryPc \in {"sleeping", "thrown"}
    /\ lastError.from = invocations

\* withRetry treated the error of the last attempt as retryable: it announced
\* a retry, or reported that the retries are used up.
TreatedAsRetryable == logged.level \in {"warn", "error"}

\* The errors that are to be retried: an error of the HTTP client that carries
\* a response with status 5xx or 429, or one that carries no response and is
\* not the client-side timeout.
ToBeRetried(e) ==
    /\ e.isObject
    /\ e.isAxiosError
    /\ \/ e.hasResponse /\ e.status \in 500..599
       \/ e.hasResponse /\ e.status = 429
       \/ ~e.hasResponse /\ e.code # "ECONNABORTED"

\* C16 (retry classification): an error is classified retryable if and only
\* if it is an HTTP error response with status 5xx, an HTTP 429, or a request
\* that received no response other than a client-side timeout (ECONNABORTED);
\* every other error (4xx other than 429, validation errors, errors that do
\* not come from the HTTP client) is classified non-retryable.
C16_Classification ==
    AttemptFailed => (TreatedAsRetryable <=> ToBeRetried(lastError))

\* A 5xx response was retried and the retry then timed out on the client
\* side, which ended the call.
C16_Witness ==
    /\ AttemptFailed
    /\ invocations = 2
    /\ lastError.code = "ECONNABORTED"
    /\ ~lastError.hasResponse
    /\ retryPc = "thrown"
    /\ logged.level = "debug"

\* C17 (non-retryable short-circuit): whenever an attempt fails with a
\* non-retryable error, withRetry has thrown that very error, unchanged, the
\* only delays it has waited are those that followed the earlier attempts,
\* and from then on it neither invokes the operation nor waits again; so an
\* operation whose first attempt fails with HTTP 400 is invoked exactly once.
C17_ShortCircuit ==
    /\ [](AttemptFailed /\ ~ToBeRetried(lastError)
            => /\ retryPc = "thrown"
               /\ outcome.kind = "thrown"
               /\ outcome.error = lastError
               /\ outcome.error.from = invocations
               /\ Len(delays) = invocations - 1)
    /\ [][retryPc = "thrown"
            => /\ invocations' = invocations
               /\ delays' = delays
               /\ outcome' = outcome
               /\ retryPc' = "thrown"]_vars

\* The first attempt failed with HTTP 400 and the call has ended.
C17_Witness ==
    /\ AttemptFailed
    /\ lastError.hasResponse
    /\ lastError.status = 400
    /\ invocations = 1
    /\ delays = <<>>
    /\ outcome.kind = "thrown"

RECURSIVE Power(_, _)
Power(b, n) == IF n = 0 THEN 1 ELSE Power(b, n - 1) * b

Smaller(a, b) == IF a < b THEN a ELSE b

Larger(a, b) == IF a > b THEN a ELSE b

\* C18 (backoff delay): the delay waited after failed attempt n (counted from
\* 0) is min(initialDelayMs * backoffMultiplier^n, maxDelayMs) if the attempt
\* failed with a retryable error other than 429, and
\* max(rateLimitDelayMs, initialDelayMs * backoffMultiplier^n) if it failed
\* with a 429, which is therefore never retried sooner than rateLimitDelayMs.
C18_BackoffDelay ==
    \A k \in 1..Len(delays) :
       LET n == k - 1
           backoff == config.initialDelayMs * Power(config.backoffMultiplier, n)
       IN  IF failures[k].hasResponse /\ failures[k].status = 429
           THEN /\ delays[k] = Larger(config.rateLimitDelayMs, backoff)
                /\ delays[k] >= config.rateLimitDelayMs
           ELSE delays[k] = Smaller(backoff, config.maxDelayMs)

\* With initialDelayMs 1000 and multiplier 2, two HTTP 500 failures in a row
\* have been followed by waits of 1000 ms and 2000 ms.
C18_Witness ==
    /\ config.initialDelayMs = 1000
    /\ config.backoffMultiplier = 2
    /\ Len(failures) = 2
    /\ failures[1].status = 500
    /\ failures[2].status = 500
    /\ retryPc = "sleeping"
    /\ delays = <<1000, 2000>>

\* The withRetry call has ended.
RetryEnded == retryPc \in {"returned", "thrown"}

\* C19 (retry termination and result): whatever the operation does, withRetry
\* invokes it at most maxRetries + 1 times and waits at most maxRetries
\* delays; a call that returns a value returns that of its last invocation,
\* every invocation before it having failed; once the call has ended the
\* operation is not invoked again; and a call that ends on a retryable error
\* has made all maxRetries + 1 attempts and throws the error of the last one.
C19_TerminationAndResult ==
    /\ [](/\ invocations <= config.maxRetries + 1
          /\ Len(delays) <= config.maxRetries
          /\ Len(failures) <= invocations)
    /\ [](outcome.kind = "returned"
            => /\ retryPc = "returned"
               /\ outcome.value = invocations
               /\ Len(failures) = invocations - 1)
    /\ [](retryPc = "thrown" /\ ToBeRetried(failures[Len(failures)])
            => /\ invocations = config.maxRetries + 1
               /\ Len(failures) = config.maxRetries + 1
               /\ \A k \in 1..Len(failures) : ToBeRetried(failures[k])
               /\ outcome.kind = "thrown"
               /\ outcome.error.from = invocations
               /\ outcome.error.status = failures[Len(failures)].status
               /\ outcome.error.code = failures[Len(failures)].code)
    /\ [][RetryEnded => /\ invocations' = invocations
                        /\ failures' = failures
                        /\ RetryEnded']_vars

\* All four attempts of a call with maxRetries = 3 failed with retryable
\* errors, the last one a 429, and the call has thrown.
C19_Witness ==
    /\ config.maxRetries = 3
    /\ invocations = 4
    /\ Len(failures) = 4
    /\ \A k \in 1..4 : ToBeRetried(failures[k])
    /\ failures[4].status = 429
    /\ retryPc = "thrown"
    /\ outcome.error.status = 429

\* withRetry has given up because its retries are used up.
GaveUp ==
    /\ retryPc = "thrown"
    /\ ToBeRetried(failures[Len(failures)])

PassesCheck(t) ==
    /\ t.access_token # Undefined
    /\ t.refresh_token # Undefined

\* The places in the file of the records that pass the check.
Passing == {k \in 1..Len(tokensFile) : PassesCheck(tokensFile[k].tokens)}

\* The place of the record with the greatest retrievedAt among those that
\* pass the check, the earliest inserted of them if several share it.
NewestPassing ==
    CHOOSE k \in Passing :
       /\ \A j \in Passing : tokensFile[j].tokens.retrievedAt <= tokensFile[k].tokens.retrievedAt
       /\ \A j \in Passing : j < k
              => tokensFile[j].tokens.retrievedAt < tokensFile[k].tokens.retrievedAt

\* The call just made read the file and went through getNewestValidToken.
AskedForNewest ==
    /\ lastGet.read
    /\ \/ lastGet.fn = "getFirstAvailableTokens"
       \/ /\ lastGet.fn = "getTokens"
          /\ lastGet.useDefault
          /\ \A k \in Passing : tokensFile[k].userId # lastGet.userId

\* C22 (newest-wins selection): getNewestValidToken, behind
\* getFirstAvailableTokens and getTokens with useDefault, returns among the
\* stored records that pass the validity check the one with the greatest
\* retrievedAt, the earliest inserted one if several share it, and returns
\* null if and only if no stored record passes the check.
C22_NewestWins ==
    AskedForNewest
      => /\ lastGet.found <=> Passing # {}
         /\ lastGet.found => lastGet.tokens = tokensFile[NewestPassing].tokens

\* Two users have been saved one after the other; the call returned the record
\* saved later, which stands second in the file.
C22_Witness ==
    /\ lastGet.fn = "getFirstAvailableTokens"
    /\ lastGet.found
    /\ Len(tokensFile) = 2
    /\ Passing = {1, 2}
    /\ tokensFile[1].tokens.retrievedAt < tokensFile[2].tokens.retrievedAt
    /\ lastGet.tokens = tokensFile[2].tokens
    /\ lastGet.tokens.userId = tokensFile[2].userId

\* C23 (validity filter): no record that getFirstAvailableTokens or getTokens
\* returns has an empty (or missing) access token, an empty (or missing)
\* refresh token or a non-numeric expiry: a stored record that fails this is
\* never selected, whatever its retrievedAt.
C23_ValidityFilter ==
    lastGet.found
      => /\ lastGet.tokens.access_token \notin {"", Undefined}
         /\ lastGet.tokens.refresh_token \notin {"", Undefined}
         /\ lastGet.tokens.expiry_date \in Nat

\* The places in the file of the records stored for userId that pass the
\* validity check (there is at most one).
OwnPassing(userId) == {k \in Passing : tokensFile[k].userId = userId}

\* C29 (own record first, default only on request): a getTokens(userId,
\* useDefault) call that has read the file returns userId's own record
\* whenever one is stored and passes the validity check, whatever newer
\* records other users have; otherwise it returns the newest record that
\* passes the check if useDefault is true (null if there is none) and null if
\* useDefault is false; so without useDefault the caller never receives the
\* record of another user.
C29_OwnRecordFirst ==
    lastGet.fn = "getTokens" /\ lastGet.read
      => /\ OwnPassing(lastGet.userId) # {}
            => /\ lastGet.found
               /\ \E k \in OwnPassing(lastGet.userId) : lastGet.tokens = tokensFile[k].tokens
         /\ OwnPassing(lastGet.userId) = {} /\ lastGet.useDefault
            => /\ lastGet.found <=> Passing # {}
               /\ lastGet.found => lastGet.tokens = tokensFile[NewestPassing].tokens
         /\ OwnPassing(lastGet.userId) = {} /\ ~lastGet.useDefault
            => ~lastGet.found
         /\ lastGet.found /\ ~lastGet.useDefault
            => lastGet.tokens.userId = lastGet.userId

\* User A was saved first and user B later; getTokens('A', true) returned A's
\* record, the older of the two.
C29_Witness ==
    /\ lastGet.fn = "getTokens"
    /\ lastGet.userId = "A"
    /\ lastGet.useDefault
    /\ lastGet.found
    /\ Passing = {1, 2}
    /\ tokensFile[1].userId = "A"
    /\ tokensFile[1].tokens.retrievedAt < tokensFile[2].tokens.retrievedAt
    /\ lastGet.tokens = tokensFile[1].tokens
    /\ lastGet.tokens.userId = "A"

\* C26 (secrets only in the secret store): in every reachable state no access
\* token and no refresh token stands in a plaintext file: the save path of the
\* OAuth callback and of the refresh coordinator's persist step writes none
\* to the tokens file.
C26_NoSecretInPlaintextFile ==
    \A k \in 1..Len(tokensFile) :
       /\ tokensFile[k].tokens.access_token \in {"", Undefined}
       /\ tokensFile[k].tokens.refresh_token \in {"", Undefined}

\* C27 (store failures are surfaced): when the store fails during a save or
\* a remove, the call reports an error to its caller; none returns normally
\* after a failed read or write.
C27_FailuresSurfaced ==
    lastDone.op \in {"save", "remove"} /\ lastDone.ioFailed => lastDone.threw

\* -------------------------------------------------- properties of SpecSecure

\* C24 (save/get round trip): a getTokensSecure(userId) whose reads succeed,
\* made after a saveTokensSecure for userId has succeeded and before the next
\* save or remove for userId, returns the saved access token, refresh token
\* and expiry, the saved userId and userEmail, and a retrievedAt equal to the
\* time the save stamped.
C24_RoundTrip ==
    /\ lastSecure.fn = "get"
    /\ ~lastSecure.ioFailed
    /\ saves[lastSecure.userId].outcome = "ok"
    => /\ lastSecure.found
       /\ lastSecure.tokens = saves[lastSecure.userId].tokens
       /\ lastSecure.resultUserId = lastSecure.userId
       /\ lastSecure.userEmail = saves[lastSecure.userId].userEmail
       /\ lastSecure.retrievedAt = saves[lastSecure.userId].at

\* C25 (save is all-or-nothing): after a saveTokensSecure for userId has
\* thrown, at whichever of its awaits, a getTokensSecure(userId) whose reads
\* succeed returns what the keychain held for userId before that save: never
\* the record the failed save was writing.
C25_AllOrNothing ==
    /\ lastSecure.fn = "get"
    /\ ~lastSecure.ioFailed
    /\ saves[lastSecure.userId].outcome = "failed"
    => /\ lastSecure.found <=> saves[lastSecure.userId].before # NoPassword
       /\ lastSecure.tokens = saves[lastSecure.userId].before

\* C28 (migration idempotence): a migrateLegacyTokens call that finds no
\* legacy file returns without error and has written nothing, neither to the
\* keychain nor to the metadata directory nor elsewhere on the file system;
\* so the run that follows a successful migration, which renamed the legacy
\* file, is such a call.
C28_MigrationIdempotent ==
    /\ [](lastSecure.fn = "migrate" /\ ~lastSecure.legacyFound
            => /\ ~lastSecure.threw
               /\ lastSecure.writes = 0)
    /\ [][secureOp.fn = "migrate" /\ ~legacyFile.exists
            => UNCHANGED <<keychain, metadataFiles, legacyFile, backups>>]_vars

\* A first run has migrated the legacy file and renamed it; a second run has
\* just returned, having found none.
C28_Witness ==
    /\ lastSecure.fn = "migrate"
    /\ ~lastSecure.legacyFound
    /\ backups = 1
    /\ \E u \in Users : saves[u].outcome = "ok" /\ keychain[u].access_token = "legacy"

\* ---------------------------------------------------- properties of SpecAuth

\* An ID token that passes verification: a JWT signed by Google, issued by
\* Google for this client, not expired.
Verifies(t) ==
    /\ t.present
    /\ t.wellFormed
    /\ t.signed
    /\ t.aud = clientId
    /\ ~t.expired
    /\ t.iss \in {"https://accounts.google.com", "accounts.google.com"}

\* The user id is a generated one, taken from no claim.
Generated(identity) ==
    /\ Len(identity.userId) = 2
    /\ identity.userId[1] = "user_"

\* The user id is the given claim.
TakenFrom(identity, claim) ==
    /\ claim # Undefined
    /\ identity.userId = <<claim>>

Issued == 1..issued

\* The state tokens still waiting for their callback.
Unconsumed == {s.state : s \in authStates}

\* C31 (CSRF state protocol): a callback starts the code exchange only for a
\* state that GET /auth issued and that is still unconsumed, and consumes it
\* in the same step; so every callback in progress, and every callback that
\* has saved tokens, carries an issued state that is no longer accepted; a
\* callback that reaches the handler with a missing, unknown or used state
\* is answered 400.
C31_StateProtocol ==
    /\ [](callback.pc # "none"
            => callback.state \in Issued /\ callback.state \notin Unconsumed)
    /\ [](lastResponse.route = "/auth/callback" /\ lastResponse.status = 200
            => lastResponse.state \in Issued /\ lastResponse.state \notin Unconsumed)
    /\ [][callback.pc = "none" /\ callback'.pc # "none"
            => /\ callback'.state \in Unconsumed
               /\ Unconsumed' = Unconsumed \ {callback'.state}]_vars
    /\ [][(/\ lastResponse'.route = "/auth/callback"
           /\ lastResponse'.status # 403
           /\ callback.pc = "none"
           /\ lastResponse'.state \notin Unconsumed)
          => /\ lastResponse'.status = 400
             /\ UNCHANGED <<callback, authStates>>]_vars

\* A callback has presented, with a code, a state that an earlier callback
\* had consumed, and was answered 400.
C31_Witness ==
    /\ lastResponse.route = "/auth/callback"
    /\ lastResponse.status = 400
    /\ lastResponse.hasCode
    /\ lastResponse.state \in Issued
    /\ lastResponse.state \notin Unconsumed
    /\ callbacks = 2

\* C32 (callback without a code): every callback request that reaches the
\* handler without an authorization code is answered 400 with the message that no authorization
\* code was received, whatever its state parameter.
C32_NoCodeRejected ==
    lastResponse.route = "/auth/callback" /\ lastResponse.status # 403 /\ ~lastResponse.hasCode
      => /\ lastResponse.status = 400
         /\ lastResponse.body = "No authorization code received"

\* The time a stored state token was issued at.
IssuedAt(s) == s.expires - 10 * 60 * 1000

\* C37 (state tokens expire): whenever the cleanup timer is not overdue, a
\* callback starts the code exchange only for a state issued at most 10
\* minutes earlier.
C37_StateExpires ==
    [][(/\ callback.pc = "none"
        /\ callback'.pc # "none"
        /\ now < nextCleanup)
       => \E s \in authStates : /\ s.state = callback'.state
                                /\ now - IssuedAt(s) <= 10 * 60 * 1000]_vars

\* The Host values the guard lets through, the server listening on port 3000.
LocalHosts == {"localhost:3000", "127.0.0.1:3000", "localhost", "127.0.0.1"}

\* C33 (DNS-rebinding guard): every request with a Host header that is not
\* one of the four local names is answered 403, and no request with one of
\* them is answered 403 by the guard.
C33_HostGuard ==
    /\ \A host \in LocalHosts : ~hostRejected(host)
    /\ lastResponse.route # "none"
         => /\ lastResponse.host # Undefined /\ lastResponse.host \notin LocalHosts
               => lastResponse.status = 403
            /\ lastResponse.host \in LocalHosts => lastResponse.status # 403

\* The record the tokens file holds for userId (empty if none).
recordOf(allTokens, userId) ==
    {allTokens[k].tokens : k \in {j \in 1..Len(allTokens) : allTokens[j].userId = userId}}

\* C34 (writes for different users do not interfere): when a saveTokens or
\* removeTokens call for one user, whose read of the file succeeded, finishes
\* its write, the record of every other user in the file is what it was just
\* before: none is lost, reverted or resurrected.
C34_NoInterference ==
    [][\A k \in 1..NumFileOps, u \in Users :
          (/\ fileOps[k].pc = "writing"
           /\ fileOps[k].readOk
           /\ fileOps'[k].pc = "none"
           /\ u # fileOps[k].userId)
          => recordOf(tokensFile', u) = recordOf(tokensFile, u)]_vars

\* C35 (no duplicate upstream refresh across request flows): once a refresh
\* of user u has completed and its token is the one in the store, the
\* upstream refresh is invoked again for u only if that stored token has
\* itself expired, whatever copy the caller holds.
C35_OncePerExpiry ==
    [][\A u \in Users :
          (/\ upstream'[u] > upstream[u]
           /\ \E p \in RefreshesOf(u) : /\ promises[p].st = "fulfilled"
                                        /\ store[u] = promises[p].newTokens)
          => ExpiredAt(store[u], now)]_vars

\* Whether the message toError composed tells of an upstream failure that is
\* to be retried: HTTP 5xx, HTTP 429, or an axios error without a response
\* other than a timeout.
TransientUpstream(error) ==
    \/ error.message.status >= 500 /\ error.message.status < 600
    \/ error.message.status = 429
    \/ error.message.status = 0 /\ error.message.text = "ECONNRESET"

\* C36 (retry effective end to end): a repository function gives up on an
\* upstream failure with HTTP 5xx, HTTP 429 or a network error only after 3
\* retries.
C36_RetryEndToEnd ==
    [][(/\ repository
        /\ retryPc = "calling"
        /\ retryPc' = "thrown"
        /\ TransientUpstream(lastError'))
       => attempt = 3]_vars

\* C38 (maxDelayMs is the maximum delay): every delay withRetry waits
\* between two attempts is at most maxDelayMs, whatever the configuration,
\* the attempt number and the kind of retryable error, HTTP 429 included.
C38_MaxDelay ==
    \A k \in 1..Len(delays) : delays[k] <= config.maxDelayMs

\* C39 (requests are counted in the window in which they are recorded): a
\* recordRequest adds to the counter of the window that contains now; it
\* never adds to a counter whose window has ended (now >= resetTime), which
\* the next reset would zero together with the request.
C39_CountedInOwnWindow ==
    [][requestCount' = requestCount + 1 => now < resetTime]_vars

\* C40 (rate-limiter liveness): every operation handed to throttle is
\* eventually started and its caller's promise eventually settles, provided
\* the operations started before it complete; also when it was handed over
\* while the drain loop was sleeping, running an operation or leaving.
C40_EveryOperationServed ==
    \A i \in Ops :
        (ops[i].st # "none")
          ~> (/\ ops[i].st = "done"
              /\ ops[i].started >= ops[i].submitted
              /\ ops[i].promise \in {"resolved", "rejected"})

\* The second operation arrived while the loop was busy with the first, had
\* to wait for its turn, and has been run and settled; so has a third, which
\* arrived later still.
C40_Witness ==
    /\ ops[2].st = "done"
    /\ ops[2].started > ops[2].submitted
    /\ ops[2].promise = "rejected"
    /\ ops[3].st = "done"
    /\ ops[3].submitted > ops[2].submitted
    /\ ops[3].promise = "resolved"

====
